---- MODULE Spec2Model ----
(***************************************************************************)
(* Model of ObjCryst::Crystal (src/ObjCryst/ObjCryst/Crystal.cpp): the     *)
(* scattering-component list, the neighbour (distance) table, the          *)
(* dynamical occupancy correction, the bump-merge and bond-valence costs   *)
(* and the logical clocks that make them lazy.                             *)
(*                                                                         *)
(* Representation of numbers.  Fractional coordinates are held already     *)
(* multiplied by FRAC2LONG (line 1254), so the cast (long)(x*FRAC2LONG) of *)
(* lines 1288-1290 is exact.  The cell is cubic with edge LatticePar, so   *)
(* the orthonormalisation matrix is diagonal and one fixed-point step is   *)
(* LatticePar/FRAC2LONG Angstroem: lengths are integers in that unit       *)
(* ("quanta") and squared lengths in quanta^2.  Other REAL values are      *)
(* fixed-point integers whose unit is named where they are defined.        *)
(* Component indices are 1-based (component i is index i-1 of the code);   *)
(* symmetry indices are 0-based as in the code.  A species (ScatteringPower*)
(* pointer) is a positive integer, its address; 0 is the null pointer.     *)
(***************************************************************************)
EXTENDS Integers, Sequences, FiniteSets, TLC

VARIABLES
    tick,                  \* RefinableObjClock's global tick counter
    scatt,                 \* the Scatterer objects that exist (registered or not)
    mSpaceGroup,           \* UnitCell: the space group
    mScattererRegistry,    \* sequence of registered scatterers
    mScatteringPowerRegistry, \* set of registered species
    mDynPopCorrIndex,      \* ScatteringPower: the identity index of each species
    mUseDynPopCorr,        \* option: 1 = use the dynamical occupancy correction
    mRandomMoveIsDone,     \* RefinableObj: a random move was made since the last begin
    mClockMaster, mClockMetricMatrix, mClockScattererList,
    mMasterClockScatteringPower,
    mScattCompList, mClockScattCompList,
    mvDistTableSq, mDistTableClock,
    mClockDynPopCorr,
    mvBumpMergePar, mBumpMergeParClock,
    mBumpMergeCost, mBumpMergeCostClock, mBumpMergeScale,
    mvBondValenceRo, mBondValenceParClock,
    mvBondValenceCalc, mBondValenceCalcClock,
    mBondValenceCost, mBondValenceCostClock, mBondValenceCostScale,
    tableMargin,           \* instrumentation: asymUnitMargin of the last table build
    log,                   \* instrumentation: artifacts recomputed by the last operation
    lastOp,                \* instrumentation: the last operation called
    ret                    \* instrumentation: the value it returned

vars == << tick, scatt, mSpaceGroup, mScattererRegistry, mScatteringPowerRegistry,
           mDynPopCorrIndex,
           mUseDynPopCorr, mRandomMoveIsDone, mClockMaster, mClockMetricMatrix,
           mClockScattererList,
           mMasterClockScatteringPower, mScattCompList, mClockScattCompList,
           mvDistTableSq, mDistTableClock, mClockDynPopCorr,
           mvBumpMergePar, mBumpMergeParClock, mBumpMergeCost, mBumpMergeCostClock,
           mBumpMergeScale, mvBondValenceRo, mBondValenceParClock,
           mvBondValenceCalc, mBondValenceCalcClock, mBondValenceCost,
           mBondValenceCostClock, mBondValenceCostScale,
           tableMargin, log, lastOp, ret >>

-----------------------------------------------------------------------------
(* Bounds of the model *)

\* the global tick counter is capped: an operation is taken only if it ends
\* with tick <= MaxTick
MaxTick == 22

-----------------------------------------------------------------------------
(* Program constants *)

FRAC2LONG == 16384
HALF_FRAC2LONG == 8192

\* cell edge a = b = c, in Angstroem (GetLatticePar)
LatticePar == 64

\* one Angstroem in quanta
Angstroem == FRAC2LONG \div LatticePar

\* the fixed-point unit of mDynPopCorr and of occupancies: DynPopUnit is 1.0
DynPopUnit == 2520

\* the unit of the scale factors: ScaleUnit is 1.0, so 1e-5 is ScaleUnit/100000
ScaleUnit == 1000000
ScaleThreshold == ScaleUnit \div 100000

Min(a, b) == IF a < b THEN a ELSE b
Max(a, b) == IF a > b THEN a ELSE b
Abs(a) == IF a < 0 THEN -a ELSE a

RECURSIVE SqrtSearch(_, _, _)
SqrtSearch(v, lo, hi) ==
    IF lo >= hi THEN lo
    ELSE LET mid == (lo + hi + 1) \div 2
         IN IF mid * mid <= v THEN SqrtSearch(v, mid, hi)
                              ELSE SqrtSearch(v, lo, mid - 1)

\* sqrt() on fixed-point values: the integer part of the square root
Sqrt(v) == SqrtSearch(v, 0, 46340)

\* the function f over 1..n as a sequence value (evaluated once, not on each use)
AsSeq(f) == << >> \o f

RECURSIVE SumSeq(_)
SumSeq(s) == IF s = << >> THEN 0 ELSE Head(s) + SumSeq(Tail(s))

RECURSIVE Flatten(_)
Flatten(ss) == IF ss = << >> THEN << >> ELSE Head(ss) \o Flatten(Tail(ss))

-----------------------------------------------------------------------------
(* The symmetry provider (SpaceGroup, AsymmetricUnit) *)

SpaceGroups == {"P1", "Pm", "P21", "P-1"}

\* SpaceGroup::GetNbSymmetrics
GetNbSymmetrics(sg) == IF sg = "P1" THEN 1 ELSE 2

\* SpaceGroup::GetAllSymmetrics: the equivalent positions, in generation order;
\* the coordinates are not reduced into the cell.
\*   P1  : x,y,z
\*   Pm  : x,y,z ; -x,y,z          (mirror plane at x = 0)
\*   P21 : x,y,z ; x+1/2,-y,-z     (screw axis along a)
\*   P-1 : x,y,z ; -x,-y,-z        (inversion centre at the origin)
\*   C1  : x,y,z ; x+1/2,y+1/2,z   (C-centred cell)
GetAllSymmetrics(sg, x, y, z) ==
    CASE sg = "P1"  -> << <<x, y, z>> >>
      [] sg = "Pm"  -> << <<x, y, z>>, <<-x, y, z>> >>
      [] sg = "P21" -> << <<x, y, z>>, <<x + HALF_FRAC2LONG, -y, -z>> >>
      [] sg = "P-1" -> << <<x, y, z>>, <<-x, -y, -z>> >>
      [] sg = "C1"  -> << <<x, y, z>>, <<x + HALF_FRAC2LONG, y + HALF_FRAC2LONG, z>> >>

\* AsymmetricUnit::Xmax, Ymax, Zmax, times FRAC2LONG; for P-1 the provider
\* gives its default unit, the whole cell; for C1 its unit is
\* -1/4 <= x <= 1/4, which begins below zero, and Xmax is 1/4
AsymUnitMax(sg) ==
    IF sg \in {"P1", "P-1"} THEN <<FRAC2LONG, FRAC2LONG, FRAC2LONG>>
    ELSE IF sg = "C1" THEN <<FRAC2LONG \div 4, FRAC2LONG, FRAC2LONG>>
    ELSE <<HALF_FRAC2LONG, FRAC2LONG, FRAC2LONG>>

-----------------------------------------------------------------------------
(* The crystal as one record, so that the const member functions, which call
   one another and update the mutable caches, are operators from record to
   record *)

Self ==
    [ tick |-> tick, scatt |-> scatt, mSpaceGroup |-> mSpaceGroup,
      mScattererRegistry |-> mScattererRegistry,
      mScatteringPowerRegistry |-> mScatteringPowerRegistry,
      mDynPopCorrIndex |-> mDynPopCorrIndex,
      mUseDynPopCorr |-> mUseDynPopCorr,
      mRandomMoveIsDone |-> mRandomMoveIsDone,
      mClockMaster |-> mClockMaster, mClockMetricMatrix |-> mClockMetricMatrix,
      mClockScattererList |-> mClockScattererList,
      mMasterClockScatteringPower |-> mMasterClockScatteringPower,
      mScattCompList |-> mScattCompList, mClockScattCompList |-> mClockScattCompList,
      mvDistTableSq |-> mvDistTableSq, mDistTableClock |-> mDistTableClock,
      mClockDynPopCorr |-> mClockDynPopCorr,
      mvBumpMergePar |-> mvBumpMergePar, mBumpMergeParClock |-> mBumpMergeParClock,
      mBumpMergeCost |-> mBumpMergeCost, mBumpMergeCostClock |-> mBumpMergeCostClock,
      mBumpMergeScale |-> mBumpMergeScale,
      mvBondValenceRo |-> mvBondValenceRo, mBondValenceParClock |-> mBondValenceParClock,
      mvBondValenceCalc |-> mvBondValenceCalc,
      mBondValenceCalcClock |-> mBondValenceCalcClock,
      mBondValenceCost |-> mBondValenceCost,
      mBondValenceCostClock |-> mBondValenceCostClock,
      mBondValenceCostScale |-> mBondValenceCostScale,
      tableMargin |-> tableMargin, log |-> log ]

\* the next state is the record c; op and r are the operation and its result
Becomes(c, op, r) ==
    /\ c.tick <= MaxTick
    /\ tick' = c.tick
    /\ scatt' = c.scatt
    /\ mSpaceGroup' = c.mSpaceGroup
    /\ mScattererRegistry' = c.mScattererRegistry
    /\ mScatteringPowerRegistry' = c.mScatteringPowerRegistry
    /\ mDynPopCorrIndex' = c.mDynPopCorrIndex
    /\ mUseDynPopCorr' = c.mUseDynPopCorr
    /\ mRandomMoveIsDone' = c.mRandomMoveIsDone
    /\ mClockMaster' = c.mClockMaster
    /\ mClockMetricMatrix' = c.mClockMetricMatrix
    /\ mClockScattererList' = c.mClockScattererList
    /\ mMasterClockScatteringPower' = c.mMasterClockScatteringPower
    /\ mScattCompList' = c.mScattCompList
    /\ mClockScattCompList' = c.mClockScattCompList
    /\ mvDistTableSq' = c.mvDistTableSq
    /\ mDistTableClock' = c.mDistTableClock
    /\ mClockDynPopCorr' = c.mClockDynPopCorr
    /\ mvBumpMergePar' = c.mvBumpMergePar
    /\ mBumpMergeParClock' = c.mBumpMergeParClock
    /\ mBumpMergeCost' = c.mBumpMergeCost
    /\ mBumpMergeCostClock' = c.mBumpMergeCostClock
    /\ mBumpMergeScale' = c.mBumpMergeScale
    /\ mvBondValenceRo' = c.mvBondValenceRo
    /\ mBondValenceParClock' = c.mBondValenceParClock
    /\ mvBondValenceCalc' = c.mvBondValenceCalc
    /\ mBondValenceCalcClock' = c.mBondValenceCalcClock
    /\ mBondValenceCost' = c.mBondValenceCost
    /\ mBondValenceCostClock' = c.mBondValenceCostClock
    /\ mBondValenceCostScale' = c.mBondValenceCostScale
    /\ tableMargin' = c.tableMargin
    /\ log' = c.log
    /\ lastOp' = op
    /\ ret' = r

-----------------------------------------------------------------------------
(* RefinableObjClock *)

\* Click(): the clock takes the next value of the global counter
Click(c, clock) == [c EXCEPT !.tick = c.tick + 1, ![clock] = c.tick + 1]

\* Reset(): the clock goes back to zero
Reset(c, clock) == [c EXCEPT ![clock] = 0]

\* Click() of a clock that is a child of mClockMaster: the parent clicks after it
ClickChild(c, clock) == Click(Click(c, clock), "mClockMaster")

\* instrumentation: artifact a has been recomputed
Logged(c, a) == [c EXCEPT !.log = Append(c.log, a)]

-----------------------------------------------------------------------------
(* Scatterers and species *)

\* the species that exist; species p has address p
Species == {1, 2, 3}

\* what an atom's mpScattPow can be: a species, or 0 for an atom without one
SpeciesOrNull == Species \cup {0}

\* ScatteringPower::GetDynPopCorrIndex; at construction species 1 and 3 are
\* the same element
GetDynPopCorrIndex(c, p) == c.mDynPopCorrIndex[p]

\* ScatteringPower::GetFormalCharge, in valence units: species 2 is an anion
GetFormalCharge(p) == IF p = 2 THEN -2 ELSE 2

\* Scatterer::GetScatteringComponentList of an atom: its one component
ScattererComponentList(c, s) ==
    << [ mX |-> c.scatt[s].mX, mY |-> c.scatt[s].mY, mZ |-> c.scatt[s].mZ,
         mOccupancy |-> c.scatt[s].mOccupancy,
         mDynPopCorr |-> DynPopUnit,
         mpScattPow |-> c.scatt[s].mpScattPow ] >>

\* lines 275-279: the component lists of the registered scatterers, in order
ConcatComponentLists(c) ==
    Flatten(AsSeq([ i \in 1..Len(c.mScattererRegistry) |->
                ScattererComponentList(c, c.mScattererRegistry[i]) ]))

-----------------------------------------------------------------------------
(* Crystal::CalcDistTable, fast path (every caller passes fast = true) *)

\* xl & FRAC2LONGMASK
MaskFrac(v) == v % FRAC2LONG

\* lines 1353-1359: the per-axis displacement, masked and folded
FoldAxis(d) ==
    LET m == MaskFrac(d)
    IN IF m >= HALF_FRAC2LONG THEN (-m - 1) % HALF_FRAC2LONG ELSE m

\* line 1238
UseAsymUnit(sg) ==
    LET b == AsymUnitMax(sg)
    IN (b[1] \div 1024) * (b[2] \div 1024) * (b[3] \div 1024) * 10 < 6 * 4096

\* lines 1297-1299: the position is inside the asymmetric unit widened by the margin
NearAsymUnit(sg, margin, p) ==
    LET b == AsymUnitMax(sg)
    IN /\ (p.mZL > FRAC2LONG - margin) \/ (p.mZL < b[3] + margin)
       /\ (p.mXL > FRAC2LONG - margin) \/ (p.mXL < b[1] + margin)
       /\ (p.mYL > FRAC2LONG - margin) \/ (p.mYL < b[2] + margin)

\* line 1302: the position is inside the strict bounds
InAsymUnit(sg, p) ==
    LET b == AsymUnitMax(sg)
    IN p.mXL <= b[1] /\ p.mYL <= b[2] /\ p.mZL <= b[3]

\* lines 1281-1293: the equivalent positions of component i, as fixed-point
EquivPositions(c, i) ==
    LET sym == GetAllSymmetrics(c.mSpaceGroup, c.mScattCompList[i].mX,
                                c.mScattCompList[i].mY, c.mScattCompList[i].mZ)
    IN AsSeq([ j \in 1..Len(sym) |->
           [ mAtomIndex |-> i, mSymmetryIndex |-> j - 1,
             mXL |-> MaskFrac(sym[j][1]), mYL |-> MaskFrac(sym[j][2]),
             mZL |-> MaskFrac(sym[j][3]) ] ])

\* BuildVPos with a slip: the two loops are nested the other way round
BuildVPosSymmetryMajor(c, margin) ==
    LET keep(p) == ~UseAsymUnit(c.mSpaceGroup) \/ NearAsymUnit(c.mSpaceGroup, margin, p)
    IN Flatten(AsSeq([ j \in 1..GetNbSymmetrics(c.mSpaceGroup) |->
                         SelectSeq(AsSeq([ i \in 1..Len(c.mScattCompList) |->
                                               EquivPositions(c, i)[j] ]), keep) ]))

\* lines 1278-1316: vPos, the positions kept
BuildVPos(c, margin) ==
    LET keep(p) == ~UseAsymUnit(c.mSpaceGroup) \/ NearAsymUnit(c.mSpaceGroup, margin, p)
    IN Flatten(AsSeq([ i \in 1..Len(c.mScattCompList) |->
                         SelectSeq(EquivPositions(c, i), keep) ]))

\* lines 1302-1306 and 1312-1313: the positions of vPos that set vUniqueIndex[i]
UniqueCandidates(c, vPos, i) ==
    { k \in 1..Len(vPos) :
        /\ vPos[k].mAtomIndex = i
        /\ ~UseAsymUnit(c.mSpaceGroup) \/ InAsymUnit(c.mSpaceGroup, vPos[k]) }

\* VUniqueIndex with a slip: the first assignment is kept
VUniqueIndexFirst(c, vPos, i) ==
    LET cand == UniqueCandidates(c, vPos, i)
    IN IF cand = {} THEN 1 ELSE CHOOSE k \in cand : \A k2 \in cand : k <= k2

\* vUniqueIndex[i]: the last assignment wins; the vector is zero-initialised
\* (line 1244), and index 0 of the code is index 1 here
VUniqueIndex(c, vPos, i) ==
    LET cand == UniqueCandidates(c, vPos, i)
    IN IF cand = {} THEN 1 ELSE CHOOSE k \in cand : \A k2 \in cand : k2 <= k

\* lines 1349-1364: the neighbour record of position j seen from position u
MakeNeighbour(vPos, u, j) ==
    LET xl == FoldAxis(vPos[j].mXL - vPos[u].mXL)
        yl == FoldAxis(vPos[j].mYL - vPos[u].mYL)
        zl == FoldAxis(vPos[j].mZL - vPos[u].mZL)
    IN [ mNeighbourIndex |-> vPos[j].mAtomIndex,
         mNeighbourSymmetryIndex |-> vPos[j].mSymmetryIndex,
         mDist2 |-> xl * xl + yl * yl + zl * zl ]

\* BuildNeighbours with a slip: the unique position itself is not skipped
BuildNeighboursAll(vPos, u) ==
    AsSeq([ j \in 1..Len(vPos) |-> MakeNeighbour(vPos, u, j) ])

\* lines 1333-1376: the neighbour list of component i
BuildNeighbours(vPos, u) ==
    LET all == AsSeq([ j \in 1..Len(vPos) |-> MakeNeighbour(vPos, u, j) ])
    IN SubSeq(all, 1, u - 1) \o SubSeq(all, u + 1, Len(all))

\* lines 1212-1376: the table built from the current component list
BuildDistTable(c, margin) ==
    LET vPos == BuildVPos(c, margin)
    IN AsSeq([ i \in 1..Len(c.mScattCompList) |->
           LET cand == UniqueCandidates(c, vPos, i)
               u == VUniqueIndex(c, vPos, i)
           IN [ mIndex |-> i,
                mUniquePosSymmetryIndex |->
                    IF cand # {} THEN vPos[u].mSymmetryIndex
                    ELSE IF i <= Len(c.mvDistTableSq)
                         THEN c.mvDistTableSq[i].mUniquePosSymmetryIndex
                         ELSE 0,
                mvNeighbour |-> BuildNeighbours(vPos, u) ] ])

\* the constant arguments of CalcDynPopCorr (line 285), in quanta
OverlapDist == Angstroem
MergeDist == Angstroem \div 2

\* DynPopCorrOf with a slip: a term is not divided by overlapDist - mergeDist
DynPopCorrOfUnscaled(dists, overlapDist, mergeDist) ==
    (DynPopUnit * Angstroem)
        \div (Angstroem + SumSeq(AsSeq([ k \in 1..Len(dists) |->
                   Abs(overlapDist - Max(dists[k] - mergeDist, 0) - mergeDist) ])))

\* lines 706-713: the correction factor from the distances of the neighbours kept
DynPopCorrOf(dists, overlapDist, mergeDist) ==
    LET term(d) == Abs(overlapDist - Max(d - mergeDist, 0) - mergeDist)
        corr == SumSeq(AsSeq([ k \in 1..Len(dists) |-> term(dists[k]) ]))
    IN (DynPopUnit * (overlapDist - mergeDist)) \div ((overlapDist - mergeDist) + corr)

\* DynPopCorrComponent with a slip: a neighbour without a species is not
\* skipped, and counts as one of the same identity
DynPopCorrComponentCountNull(c, i, overlapDist, mergeDist) ==
    IF c.mScattCompList[i].mpScattPow = 0 THEN DynPopUnit
    ELSE LET atomicNumber == GetDynPopCorrIndex(c, c.mScattCompList[i].mpScattPow)
             same(nb) ==
                 /\ \/ c.mScattCompList[nb.mNeighbourIndex].mpScattPow = 0
                    \/ atomicNumber =
                         GetDynPopCorrIndex(c, c.mScattCompList[nb.mNeighbourIndex].mpScattPow)
                 /\ overlapDist * overlapDist > nb.mDist2
             kept == SelectSeq(c.mvDistTableSq[i].mvNeighbour, same)
             neighborsDist == AsSeq([ k \in 1..Len(kept) |-> Sqrt(kept[k].mDist2) ])
         IN DynPopCorrOf(neighborsDist, overlapDist, mergeDist)

\* lines 684-714: the correction factor of component i
DynPopCorrComponent(c, i, overlapDist, mergeDist) ==
    IF c.mScattCompList[i].mpScattPow = 0 THEN DynPopUnit
    ELSE LET atomicNumber == GetDynPopCorrIndex(c, c.mScattCompList[i].mpScattPow)
             same(nb) ==
                 /\ c.mScattCompList[nb.mNeighbourIndex].mpScattPow # 0
                 /\ atomicNumber =
                      GetDynPopCorrIndex(c, c.mScattCompList[nb.mNeighbourIndex].mpScattPow)
                 /\ overlapDist * overlapDist > nb.mDist2
             kept == SelectSeq(c.mvDistTableSq[i].mvNeighbour, same)
             neighborsDist == AsSeq([ k \in 1..Len(kept) |-> Sqrt(kept[k].mDist2) ])
         IN DynPopCorrOf(neighborsDist, overlapDist, mergeDist)

RECURSIVE GetScatteringComponentListOp(_), CalcDistTableOp(_, _), CalcDynPopCorrOp(_, _, _)

\* CalcDistTableFrom with a slip: the clock of the metric matrix is not looked at
CalcDistTableFromListOnly(c, asymUnitMargin) ==
    IF c.mDistTableClock > c.mClockScattCompList
    THEN c
    ELSE Logged(Click([c EXCEPT !.mvDistTableSq = BuildDistTable(c, asymUnitMargin),
                                !.tableMargin = asymUnitMargin],
                      "mDistTableClock"), "table")

\* lines 1208-1378: CalcDistTable once the component list c is current
CalcDistTableFrom(c, asymUnitMargin) ==
    IF /\ c.mDistTableClock > c.mClockScattCompList
       /\ c.mDistTableClock > c.mClockMetricMatrix
    THEN c
    ELSE Logged(Click([c EXCEPT !.mvDistTableSq = BuildDistTable(c, asymUnitMargin),
                                !.tableMargin = asymUnitMargin],
                      "mDistTableClock"), "table")

\* CalcDistTable with a slip: the nested call of GetScatteringComponentList
\* rebuilds the list without looking at the clocks
CalcDistTableOpListRebuilt(c0, asymUnitMargin) ==
    CalcDistTableFrom(
        Logged(Click([c0 EXCEPT !.mScattCompList = ConcatComponentLists(c0)],
                     "mClockScattCompList"), "list"),
        asymUnitMargin)

\* Crystal::CalcDistTable(true, asymUnitMargin); the margin is in quanta
CalcDistTableOp(c0, asymUnitMargin) ==
    CalcDistTableFrom(GetScatteringComponentListOp(c0), asymUnitMargin)

\* lines 673-716: CalcDynPopCorr once the table of c is current
CalcDynPopCorrFrom(c, overlapDist, mergeDist) ==
    IF c.mClockDynPopCorr > c.mDistTableClock THEN c
    ELSE Logged(Click([c EXCEPT !.mScattCompList =
                          AsSeq([ i \in 1..Len(c.mScattCompList) |->
                              [c.mScattCompList[i] EXCEPT !.mDynPopCorr =
                                  DynPopCorrComponent(c, i, overlapDist, mergeDist)] ])],
                      "mClockDynPopCorr"), "dyn")

\* Crystal::CalcDynPopCorr
CalcDynPopCorrOp(c0, overlapDist, mergeDist) ==
    CalcDynPopCorrFrom(CalcDistTableOp(c0, overlapDist), overlapDist, mergeDist)

\* Crystal::ResetDynPopCorr
ResetDynPopCorrOp(c) ==
    [Reset(c, "mClockDynPopCorr") EXCEPT !.mScattCompList =
        AsSeq([ i \in 1..Len(c.mScattCompList) |->
            [c.mScattCompList[i] EXCEPT !.mDynPopCorr = DynPopUnit] ])]

\* NeedsUpdate with a slip: only the first registered scatterer is looked at
NeedsUpdateFirstOnly(c) ==
    /\ Len(c.mScattererRegistry) > 0
    /\ c.mClockScattCompList < c.scatt[c.mScattererRegistry[1]].mClockScatterer

\* lines 264-269
NeedsUpdate(c) ==
    \E i \in 1..Len(c.mScattererRegistry) :
        c.mClockScattCompList < c.scatt[c.mScattererRegistry[i]].mClockScatterer

\* lines 284-285: the correction factors of the list just rebuilt
CorrectRebuiltList(c) ==
    IF c.mUseDynPopCorr = 1 THEN CalcDynPopCorrOp(c, OverlapDist, MergeDist)
                            ELSE ResetDynPopCorrOp(c)

\* Crystal::GetScatteringComponentList
GetScatteringComponentListOp(c) ==
    IF c.mClockScattCompList > c.mClockMaster THEN c
    ELSE IF ~NeedsUpdate(c) THEN c
    ELSE CorrectRebuiltList(
             Logged(Click([c EXCEPT !.mScattCompList = ConcatComponentLists(c)],
                          "mClockScattCompList"), "list"))

-----------------------------------------------------------------------------
(* Crystal::GetMinDistanceTable *)

\* the initial value of every entry (line 361), 10000 A^2
NoDistance == 10000 * Angstroem * Angstroem

\* the default asymUnitMargin of CalcDistTable (line 353 passes none), in quanta
DefaultAsymUnitMargin == 4 * Angstroem

\* Accepted with a slip: a record of the component itself is never accepted
AcceptedNeverSelf(h, nb, min) ==
    /\ h.mIndex # nb.mNeighbourIndex
    /\ \/ nb.mDist2 > min
       \/ h.mUniquePosSymmetryIndex # nb.mNeighbourSymmetryIndex

\* lines 371-375: the neighbour record nb of neighbourhood h is accepted
Accepted(h, nb, min) ==
    \/ nb.mDist2 > min
    \/ /\ h.mIndex # nb.mNeighbourIndex
       /\ h.mUniquePosSymmetryIndex # nb.mNeighbourSymmetryIndex

\* lines 366-376: row i of the table after the scan of the neighbours nbs
RECURSIVE MinDistRow(_, _, _, _)
MinDistRow(row, h, nbs, min) ==
    IF nbs = << >> THEN row
    ELSE LET nb == Head(nbs)
             tmp == nb.mDist2
             dist == row[nb.mNeighbourIndex]
         IN MinDistRow(IF tmp < dist /\ Accepted(h, nb, min)
                       THEN [row EXCEPT ![nb.mNeighbourIndex] = tmp] ELSE row,
                       h, Tail(nbs), min)

\* MinDistEntry with a slip: an entry left at its initial value is not reset
MinDistEntryKeepInitial(v) == Sqrt(v)

\* lines 382-383: an entry left at its initial value becomes 0, then the root
MinDistEntry(v) == Sqrt(IF v > 9999 * Angstroem * Angstroem THEN 0 ELSE v)

\* lines 378-386: the lower triangle is finished and copied to the upper one
MinDistMirror(raw, n) ==
    AsSeq([ i \in 1..n |-> AsSeq([ j \in 1..n |->
        IF j <= i THEN MinDistEntry(raw[i][j]) ELSE MinDistEntry(raw[j][i]) ]) ])

\* lines 359-360: min, the square of minDistance, or -1 for "no minimum"
MinOf(minDistance) ==
    IF minDistance < 0 THEN -(Angstroem * Angstroem) ELSE minDistance * minDistance

\* lines 361-377: the table before it is finished
MinDistRaw(c, n, min) ==
    AsSeq([ i \in 1..n |->
        MinDistRow(AsSeq([ j \in 1..n |-> NoDistance ]), c.mvDistTableSq[i],
                   c.mvDistTableSq[i].mvNeighbour, min) ])

\* lines 354-388, on a crystal whose table is current; minDistance in quanta
MinDistanceTableOf(c, minDistance) ==
    MinDistMirror(MinDistRaw(c, Len(c.mScattCompList), MinOf(minDistance)),
                  Len(c.mScattCompList))

-----------------------------------------------------------------------------
(* Crystal::CIFOutput: the loops over the components *)

\* the distance under which CIFOutput takes a component as redundant (lines
\* 936 and 963)
RedundantDist == Angstroem \div 2

\* lines 928-951: k when the component of index i is reached.  k is advanced at
\* the end of the body (line 950), which the continue of line 934 skips for a
\* component without a species; k is 0-based as in the code
CIFIndexK(list, i) == Cardinality({ l \in 1..(i - 1) : list[l].mpScattPow # 0 })

\* lines 935-936: the entries minDistTable(l, k) read, 0-based, and the result
CIFReads(k) == { <<l, k>> : l \in 0..(k - 1) }
CIFRedundant(table, k) == \E l \in 0..(k - 1) : table[l + 1][k + 1] < RedundantDist

\* lines 934-950 and 961-984: what is done for the component of index i (1-based)
\* that has a species: the species on which GetName and GetBiso are called,
\* the entries read, and whether the atom is written as redundant
CIFLine(list, table, i) ==
    [ component |-> i,
      species |-> list[i].mpScattPow,
      k |-> CIFIndexK(list, i),
      reads |-> CIFReads(CIFIndexK(list, i)),
      redundant |-> CIFRedundant(table, CIFIndexK(list, i)) ]

\* the lines of the components with a species, in order
CIFLines(list, table) ==
    AsSeq([ n \in 1..Len(SelectSeq(AsSeq([ i \in 1..Len(list) |-> i ]),
                                   LAMBDA i : list[i].mpScattPow # 0)) |->
              CIFLine(list, table,
                      SelectSeq(AsSeq([ i \in 1..Len(list) |-> i ]),
                                LAMBDA i : list[i].mpScattPow # 0)[n]) ])

\* lines 925-986 on a crystal whose list and table are current
CIFWritten(c) ==
    <<c, CIFLines(ConcatComponentLists(c), MinDistanceTableOf(c, -Angstroem))>>

\* Crystal::CIFOutput: << the crystal afterwards, the atoms written >>
CIFOutputOp(c0) == CIFWritten(CalcDistTableOp(c0, DefaultAsymUnitMargin))

-----------------------------------------------------------------------------
(* Bump-merge cost *)

\* the largest penalty term represented: larger ones saturate to it
BumpTermMax == 100

\* (tan(pi*0.49999*u)/0.1)^2 for u = k/8, rounded, saturating (line 781)
TanTermSq(k) ==
    CASE k = 0 -> 0 [] k = 1 -> 4 [] k = 2 -> 17 [] k = 3 -> 45
      [] OTHER -> BumpTermMax

\* (0.5*sin(pi*u)/0.1)^2 for u = k/8, rounded (line 779)
SinTermSq(k) ==
    CASE k = 0 -> 0 [] k = 1 -> 4 [] k = 2 -> 13 [] k = 3 -> 21 [] k = 4 -> 25
      [] k = 5 -> 21 [] k = 6 -> 13 [] k = 7 -> 4 [] OTHER -> 0

\* lines 778-782: tmp*tmp for a contact at squared distance d2 <= par.mDist2
BumpTerm(d2, par) ==
    LET ratio == Sqrt((64 * d2) \div par.mDist2)     \* sqrt(d2/mDist2), in eighths
    IN IF par.mCanOverlap THEN SinTermSq(8 - ratio) ELSE TanTermSq(8 - ratio)

\* PairKey with a slip: the pair is taken in the order given
PairKeyAsGiven(p1, p2) == <<p1, p2>>

\* lines 774-775: the key of a species pair, smaller address first
PairKey(p1, p2) == IF p1 < p2 THEN <<p1, p2>> ELSE <<p2, p1>>

\* lines 770-783: the contribution of one neighbour record of component i
BumpContribution(c, i, nb) ==
    LET key == PairKey(c.mScattCompList[i].mpScattPow,
                       c.mScattCompList[nb.mNeighbourIndex].mpScattPow)
    IN IF key \notin DOMAIN c.mvBumpMergePar THEN 0
       ELSE IF nb.mDist2 > c.mvBumpMergePar[key].mDist2 THEN 0
       ELSE BumpTerm(nb.mDist2, c.mvBumpMergePar[key])

\* lines 761-785: the cost from the current table
BumpMergeCostOf(c) ==
    SumSeq(AsSeq([ i \in 1..Len(c.mvDistTableSq) |->
               SumSeq(AsSeq([ k \in 1..Len(c.mvDistTableSq[i].mvNeighbour) |->
                          BumpContribution(c, c.mvDistTableSq[i].mIndex,
                                           c.mvDistTableSq[i].mvNeighbour[k]) ])) ]))
    * GetNbSymmetrics(c.mSpaceGroup)

\* the asymUnitMargin of line 755, in quanta
BumpMergeMargin == 3 * Angstroem

\* lines 788 and 758: the crystal with the value returned
BumpMergeCostReturned(c) == <<c, c.mBumpMergeCost * c.mBumpMergeScale>>

\* GetBumpMergeCostFrom with a slip: the cached cost is never taken as current
GetBumpMergeCostFromAnew(c) ==
    BumpMergeCostReturned(
        Logged(Click([c EXCEPT !.mBumpMergeCost = BumpMergeCostOf(c)],
                     "mBumpMergeCostClock"), "bump"))

\* lines 757-788: GetBumpMergeCost once the table of c is current
GetBumpMergeCostFrom(c) ==
    IF /\ c.mBumpMergeCostClock > c.mBumpMergeParClock
       /\ c.mBumpMergeCostClock > c.mDistTableClock
    THEN BumpMergeCostReturned(c)
    ELSE BumpMergeCostReturned(
             Logged(Click([c EXCEPT !.mBumpMergeCost = BumpMergeCostOf(c)],
                          "mBumpMergeCostClock"), "bump"))

\* GetBumpMergeCost with a slip: the scale factor is not looked at
GetBumpMergeCostOpAnyScale(c0) ==
    IF DOMAIN c0.mvBumpMergePar = {} THEN <<c0, 0>>
    ELSE GetBumpMergeCostFrom(CalcDistTableOp(c0, BumpMergeMargin))

\* Crystal::GetBumpMergeCost: << the crystal afterwards, the value returned >>
GetBumpMergeCostOp(c0) ==
    IF DOMAIN c0.mvBumpMergePar = {} THEN <<c0, 0>>
    ELSE IF c0.mBumpMergeScale < ScaleThreshold THEN <<c0, 0>>
    ELSE GetBumpMergeCostFrom(CalcDistTableOp(c0, BumpMergeMargin))

\* the map m with key k set to v
MapSet(m, k, v) == [ x \in (DOMAIN m) \cup {k} |-> IF x = k THEN v ELSE m[x] ]

\* the map m without the keys of ks
MapErase(m, ks) == [ x \in (DOMAIN m) \ ks |-> m[x] ]

\* BumpMergePar::BumpMergePar(dist, canOverlap)
BumpMergePar(dist, canOverlap) == [ mDist2 |-> dist * dist, mCanOverlap |-> canOverlap ]

\* Crystal::SetBumpMergeDistance(scatt1, scatt2, dist, allowMerge)
SetBumpMergeDistanceOp(c, scatt1, scatt2, dist, allowMerge) ==
    Click([c EXCEPT !.mvBumpMergePar =
              MapSet(c.mvBumpMergePar, PairKey(scatt1, scatt2),
                     BumpMergePar(dist, allowMerge))],
          "mBumpMergeParClock")

\* Crystal::SetBumpMergeDistance(scatt1, scatt2, dist)
SetBumpMergeDistance3Op(c, scatt1, scatt2, dist) ==
    SetBumpMergeDistanceOp(c, scatt1, scatt2, dist, scatt1 = scatt2)

\* Crystal::RemoveBumpMergeDistance
RemoveBumpMergeDistanceOp(c, scatt1, scatt2) ==
    Click([c EXCEPT !.mvBumpMergePar =
              MapErase(c.mvBumpMergePar, {PairKey(scatt1, scatt2)})],
          "mBumpMergeParClock")

-----------------------------------------------------------------------------
(* Bond valence *)

\* exp(t/0.37) for t in quanta, in valence units: 0.37 A * ln 2 is 66 quanta,
\* so the value doubles every 66 quanta; it saturates at 4 and underflows to 0
ExpBondValence(t) ==
    IF t >= 132 THEN 4
    ELSE IF t >= 66 THEN 2
    ELSE IF t >= 0 THEN 1
    ELSE 0

\* the asymUnitMargin of line 1102, in quanta
BondValenceMargin == 5 * Angstroem

\* BondValenceTerm with a slip: occup is the occupancy of the neighbour alone
BondValenceTermNominal(c, i, nb) ==
    LET dist == Sqrt(nb.mDist2)
        occup == c.mScattCompList[nb.mNeighbourIndex].mOccupancy
        key == PairKey(c.mScattCompList[i].mpScattPow,
                       c.mScattCompList[nb.mNeighbourIndex].mpScattPow)
    IN IF key \in DOMAIN c.mvBondValenceRo
       THEN <<1, (occup * ExpBondValence(c.mvBondValenceRo[key] - dist)) \div DynPopUnit>>
       ELSE <<0, 0>>

\* lines 1118-1130: << the key is configured, occup * v >> for one neighbour record
BondValenceTerm(c, i, nb) ==
    LET dist == Sqrt(nb.mDist2)
        occup == (c.mScattCompList[nb.mNeighbourIndex].mOccupancy
                  * c.mScattCompList[nb.mNeighbourIndex].mDynPopCorr) \div DynPopUnit
        key == PairKey(c.mScattCompList[i].mpScattPow,
                       c.mScattCompList[nb.mNeighbourIndex].mpScattPow)
    IN IF key \in DOMAIN c.mvBondValenceRo
       THEN <<1, (occup * ExpBondValence(c.mvBondValenceRo[key] - dist)) \div DynPopUnit>>
       ELSE <<0, 0>>

\* BondValenceCalcOf with a slip: val is stored whatever nb is
BondValenceCalcOfEvery(c) ==
    LET terms(i) == AsSeq([ k \in 1..Len(c.mvDistTableSq[i].mvNeighbour) |->
                        BondValenceTerm(c, i, c.mvDistTableSq[i].mvNeighbour[k]) ])
        val(i) == SumSeq(AsSeq([ k \in 1..Len(terms(i)) |-> terms(i)[k][2] ]))
    IN [ i \in 1..Len(c.mScattCompList) |-> val(i) ]

\* lines 1108-1133: the valence sums from the current table
BondValenceCalcOf(c) ==
    LET terms(i) == AsSeq([ k \in 1..Len(c.mvDistTableSq[i].mvNeighbour) |->
                        BondValenceTerm(c, i, c.mvDistTableSq[i].mvNeighbour[k]) ])
        nb(i) == SumSeq(AsSeq([ k \in 1..Len(terms(i)) |-> terms(i)[k][1] ]))
        val(i) == SumSeq(AsSeq([ k \in 1..Len(terms(i)) |-> terms(i)[k][2] ]))
    IN [ i \in { i \in 1..Len(c.mScattCompList) : nb(i) # 0 } |-> val(i) ]

\* lines 1103-1134: CalcBondValenceSum once the table of c is current
CalcBondValenceSumFrom(c) ==
    IF /\ c.mBondValenceCalcClock > c.mDistTableClock
       /\ c.mBondValenceCalcClock > c.mBondValenceParClock
    THEN c
    ELSE Logged(Click([c EXCEPT !.mvBondValenceCalc = BondValenceCalcOf(c)],
                      "mBondValenceCalcClock"), "bvsum")

\* Crystal::CalcBondValenceSum
CalcBondValenceSumOp(c0) ==
    IF DOMAIN c0.mvBondValenceRo = {} THEN c0
    ELSE CalcBondValenceSumFrom(CalcDistTableOp(c0, BondValenceMargin))

-----------------------------------------------------------------------------
(* Crystal::Print *)

\* lines 317-329: the line printed for component k; GetName and GetBiso are
\* called on the species of the component, and the valence is printed when
\* the map of the valence sums has an entry for k
PrintLine(c, k) ==
    [ mDynPopCorr |-> c.mScattCompList[k].mDynPopCorr,
      species |-> ConcatComponentLists(c)[k].mpScattPow,
      hasValence |-> k \in DOMAIN c.mvBondValenceCalc,
      valence |-> IF k \in DOMAIN c.mvBondValenceCalc THEN c.mvBondValenceCalc[k] ELSE 0 ]

\* lines 309-332: the lines printed, with the crystal
Printed(c) ==
    <<c, AsSeq([ k \in 1..Len(ConcatComponentLists(c)) |-> PrintLine(c, k) ])>>

\* Crystal::Print: << the crystal afterwards, the lines printed >>
PrintOp(c0) == Printed(CalcBondValenceSumOp(GetScatteringComponentListOp(c0)))

-----------------------------------------------------------------------------
(* Crystal::GetBondValenceCost *)

\* BondValenceCostOf with a slip: the differences are added, not their squares
BondValenceCostOfLinear(c) ==
    LET a(i) == c.mvBondValenceCalc[i] - GetFormalCharge(c.mScattCompList[i].mpScattPow)
        n == Len(c.mScattCompList)
    IN SumSeq(AsSeq([ i \in 1..n |->
                        IF i \in DOMAIN c.mvBondValenceCalc THEN a(i) ELSE 0 ]))

\* lines 1079-1088: the cost from the valence sums
BondValenceCostOf(c) ==
    LET a(i) == c.mvBondValenceCalc[i] - GetFormalCharge(c.mScattCompList[i].mpScattPow)
        n == Len(c.mScattCompList)
    IN SumSeq(AsSeq([ i \in 1..n |->
                        IF i \in DOMAIN c.mvBondValenceCalc THEN a(i) * a(i) ELSE 0 ]))

\* the crystal with the value returned
BondValenceCostReturned(c) == <<c, c.mBondValenceCost * c.mBondValenceCostScale>>

\* GetBondValenceCost once the valence sums of c are current
GetBondValenceCostFrom(c) ==
    IF /\ c.mBondValenceCostClock > c.mBondValenceCalcClock
       /\ c.mBondValenceCostClock > c.mMasterClockScatteringPower
    THEN BondValenceCostReturned(c)
    ELSE BondValenceCostReturned(
             Logged(Click([c EXCEPT !.mBondValenceCost = BondValenceCostOf(c)],
                          "mBondValenceCostClock"), "bvcost"))

\* Crystal::GetBondValenceCost: << the crystal afterwards, the value returned >>
GetBondValenceCostOp(c0) ==
    IF c0.mBondValenceCostScale < ScaleThreshold THEN <<c0, 0>>
    ELSE IF DOMAIN c0.mvBondValenceRo = {}
    THEN <<[c0 EXCEPT !.mBondValenceCost = 0], 0>>
    ELSE GetBondValenceCostFrom(CalcBondValenceSumOp(c0))

\* Crystal::AddBondValenceRo
AddBondValenceRoOp(c, pow1, pow2, ro) ==
    Click([c EXCEPT !.mvBondValenceRo = MapSet(c.mvBondValenceRo, PairKey(pow1, pow2), ro)],
          "mBondValenceParClock")

\* Crystal::RemoveBondValenceRo
RemoveBondValenceRoOp(c, pow1, pow2) ==
    Click([c EXCEPT !.mvBondValenceRo = MapErase(c.mvBondValenceRo, {PairKey(pow1, pow2)})],
          "mBondValenceParClock")

-----------------------------------------------------------------------------
(* Registries *)

\* KeysWith with a slip: only the first member of the key is compared
KeysWithFirst(m, p) == { k \in DOMAIN m : k[1] = p }

\* the keys of map m that have species p as first or second member
KeysWith(m, p) == { k \in DOMAIN m : k[1] = p \/ k[2] = p }

\* lines 224-232 and 234-243: the entries with the species are erased, with one
\* Click() of the map's clock for each
RECURSIVE EraseEach(_, _, _, _)
EraseEach(c, map, clock, ks) ==
    IF ks = {} THEN c
    ELSE LET k == CHOOSE k \in ks : \A k2 \in ks : k[1] < k2[1] \/ (k[1] = k2[1] /\ k[2] <= k2[2])
         IN EraseEach(Click([c EXCEPT ![map] = MapErase(c[map], {k})], clock),
                      map, clock, ks \ {k})

\* one of the two loops: the entries of the map that have the species go
EraseWith(c, map, clock, scattPow) == EraseEach(c, map, clock, KeysWith(c[map], scattPow))

\* Crystal::RemoveScatteringPower: the registry and the master clocks lose the
\* species (lines 217-221), then the two maps are cleaned
RemoveScatteringPowerOp(c, scattPow) ==
    EraseWith(EraseWith(Click(Click([c EXCEPT !.mScatteringPowerRegistry = @ \ {scattPow}],
                                    "mMasterClockScatteringPower"), "mClockMaster"),
                        "mvBumpMergePar", "mBumpMergeParClock", scattPow),
              "mvBondValenceRo", "mBondValenceParClock", scattPow)

\* the scatterer s is registered
IsRegistered(c, s) == \E i \in 1..Len(c.mScattererRegistry) : c.mScattererRegistry[i] = s

\* Crystal::AddScatterer
AddScattererOp(c, s) ==
    Click(Click([c EXCEPT !.mScattererRegistry = Append(@, s)], "mClockMaster"),
          "mClockScattererList")

\* Crystal::RemoveScatterer: the scatterer is deregistered and deleted
RemoveScattererOp(c, s) ==
    Click(Click([c EXCEPT !.mScattererRegistry = SelectSeq(@, LAMBDA x : x # s),
                          !.scatt[s].exists = FALSE],
                "mClockMaster"),
          "mClockScattererList")

\* Crystal::SetUseDynPopCorr
SetUseDynPopCorrOp(c, b) == Reset([c EXCEPT !.mUseDynPopCorr = b], "mClockDynPopCorr")

\* Scatterer::SetX, SetY, SetZ: the scatterer moves and its clock clicks; the
\* clock is a child of the crystal's master clock when the scatterer is registered
MoveScattererOp(c, s, pos) ==
    IF IsRegistered(c, s)
    THEN Click([c EXCEPT !.scatt[s].mX = pos[1], !.scatt[s].mY = pos[2],
                         !.scatt[s].mZ = pos[3], !.tick = c.tick + 1,
                         !.scatt[s].mClockScatterer = c.tick + 1], "mClockMaster")
    ELSE [c EXCEPT !.scatt[s].mX = pos[1], !.scatt[s].mY = pos[2],
                   !.scatt[s].mZ = pos[3], !.tick = c.tick + 1,
                   !.scatt[s].mClockScatterer = c.tick + 1]

\* ScatteringPower: the identity index of a registered species changes and
\* the clock of the species clicks; the two master clocks of the crystal are
\* its parents (lines 209-211)
SetDynPopCorrIndexOp(c, p, index) ==
    Click(Click([c EXCEPT !.mDynPopCorrIndex[p] = index],
                "mMasterClockScatteringPower"), "mClockMaster")

\* UnitCell: a lattice parameter changes; the metric matrix is recomputed and
\* the lattice clock, a child of the master clock, clicks
ChangeLatticeOp(c) == ClickChild(c, "mClockMetricMatrix")

\* InitOp with a slip: the clock of the table is reset with the others
InitOpResetsTable(c, sg) ==
    Reset(Reset(Reset(ClickChild([c EXCEPT !.mSpaceGroup = sg], "mClockMetricMatrix"),
                      "mClockScattCompList"), "mDistTableClock"), "mClockDynPopCorr")

\* Crystal::Init: UnitCell::Init sets the lattice and the space group, and the
\* lattice clock clicks as in ChangeLatticeOp; then the clocks of the component
\* list and of the correction are reset.  mClockNeighborTable, reset with them,
\* is clicked nowhere and is always zero
InitOp(c, sg) ==
    Reset(Reset(ClickChild([c EXCEPT !.mSpaceGroup = sg], "mClockMetricMatrix"),
                "mClockScattCompList"), "mClockDynPopCorr")

-----------------------------------------------------------------------------
(* Inputs *)

\* the scatterers (atoms) that are constructed
ScattIds == {1, 2}

\* the coordinates given to the atoms, times FRAC2LONG
PosA == <<7892, 4096, 0>>
PosB == <<300, 12288, 0>>
PosC == <<0, 0, 0>>
PosD == <<-64, 0, 0>>
PosE == <<192, 0, 0>>
Positions == {PosA, PosB, PosC, PosD, PosE}

\* the minDistance arguments: -1 (what CIFOutput passes, line 926) and 2 A
MinDistances == {-Angstroem, 2 * Angstroem}


\* a minimum distance of 2.5 A and a reference length of 2 A, in quanta
BumpDist == (5 * Angstroem) \div 2
BondRo == 2 * Angstroem

\* the species pairs given to the operations on the maps, in the order given
PairArgs == {<<1, 2>>, <<2, 1>>, <<3, 2>>, <<3, 3>>}

\* the bump-merge parameters given: << dist, allowMerge >>
BumpArgs == {<<BumpDist, FALSE>>, <<OverlapDist, TRUE>>}

\* the reference lengths given
RoArgs == {BondRo, BondRo + MergeDist}

-----------------------------------------------------------------------------
(* Construction *)

\* Crystal::Crystal with the species added, then the atoms constructed: atom 1
\* of species 1 at p1, atom 2 of species pow2 at p2; none is registered yet
Constructed(sg, p1, p2, pow2, bumpScale, bvScale) ==
    [ tick |-> 5,
      scatt |-> [ s \in ScattIds |->
                    [ mX |-> (IF s = 1 THEN p1 ELSE p2)[1],
                      mY |-> (IF s = 1 THEN p1 ELSE p2)[2],
                      mZ |-> (IF s = 1 THEN p1 ELSE p2)[3],
                      mOccupancy |-> DynPopUnit,
                      mpScattPow |-> IF s = 1 THEN 1 ELSE pow2,
                      mClockScatterer |-> 3 + s,
                      exists |-> TRUE ] ],
      mSpaceGroup |-> sg,
      mScattererRegistry |-> << >>,
      mScatteringPowerRegistry |-> Species,
      mDynPopCorrIndex |-> [ p \in Species |-> IF p = 2 THEN 2 ELSE 1 ],
      mUseDynPopCorr |-> 1,
      mRandomMoveIsDone |-> FALSE,
      mClockMaster |-> 3, mClockMetricMatrix |-> 1, mClockScattererList |-> 0,
      mMasterClockScatteringPower |-> 2,
      mScattCompList |-> << >>, mClockScattCompList |-> 0,
      mvDistTableSq |-> << >>, mDistTableClock |-> 0,
      mClockDynPopCorr |-> 0,
      mvBumpMergePar |-> << >>, mBumpMergeParClock |-> 0,
      mBumpMergeCost |-> 0, mBumpMergeCostClock |-> 0, mBumpMergeScale |-> bumpScale,
      mvBondValenceRo |-> << >>, mBondValenceParClock |-> 0,
      mvBondValenceCalc |-> << >>, mBondValenceCalcClock |-> 0,
      mBondValenceCost |-> 0, mBondValenceCostClock |-> 0,
      mBondValenceCostScale |-> bvScale,
      tableMargin |-> 0, log |-> << >> ]

\* the variables hold the record c
Holds(c) ==
    /\ tick = c.tick /\ scatt = c.scatt /\ mSpaceGroup = c.mSpaceGroup
    /\ mScattererRegistry = c.mScattererRegistry
    /\ mScatteringPowerRegistry = c.mScatteringPowerRegistry
    /\ mDynPopCorrIndex = c.mDynPopCorrIndex
    /\ mUseDynPopCorr = c.mUseDynPopCorr
    /\ mRandomMoveIsDone = c.mRandomMoveIsDone
    /\ mClockMaster = c.mClockMaster /\ mClockMetricMatrix = c.mClockMetricMatrix
    /\ mClockScattererList = c.mClockScattererList
    /\ mMasterClockScatteringPower = c.mMasterClockScatteringPower
    /\ mScattCompList = c.mScattCompList /\ mClockScattCompList = c.mClockScattCompList
    /\ mvDistTableSq = c.mvDistTableSq /\ mDistTableClock = c.mDistTableClock
    /\ mClockDynPopCorr = c.mClockDynPopCorr
    /\ mvBumpMergePar = c.mvBumpMergePar /\ mBumpMergeParClock = c.mBumpMergeParClock
    /\ mBumpMergeCost = c.mBumpMergeCost /\ mBumpMergeCostClock = c.mBumpMergeCostClock
    /\ mBumpMergeScale = c.mBumpMergeScale
    /\ mvBondValenceRo = c.mvBondValenceRo /\ mBondValenceParClock = c.mBondValenceParClock
    /\ mvBondValenceCalc = c.mvBondValenceCalc
    /\ mBondValenceCalcClock = c.mBondValenceCalcClock
    /\ mBondValenceCost = c.mBondValenceCost
    /\ mBondValenceCostClock = c.mBondValenceCostClock
    /\ mBondValenceCostScale = c.mBondValenceCostScale
    /\ tableMargin = c.tableMargin /\ log = c.log
    /\ lastOp = "Crystal" /\ ret = 0

-----------------------------------------------------------------------------
(* Operations: each starts with an empty recompute log *)

Start == [Self EXCEPT !.log = << >>]

AddScatterer(s) ==
    /\ scatt[s].exists /\ ~IsRegistered(Self, s)
    /\ Becomes(AddScattererOp(Start, s), "AddScatterer", s)

RemoveScatterer(s) ==
    /\ IsRegistered(Self, s)
    /\ Becomes(RemoveScattererOp(Start, s), "RemoveScatterer", s)

MoveScatterer(s, pos) ==
    /\ scatt[s].exists
    /\ pos # <<scatt[s].mX, scatt[s].mY, scatt[s].mZ>>
    /\ Becomes(MoveScattererOp(Start, s, pos), "MoveScatterer", s)

SetDynPopCorrIndex(p, index) ==
    /\ p \in mScatteringPowerRegistry
    /\ index # mDynPopCorrIndex[p]
    /\ Becomes(SetDynPopCorrIndexOp(Start, p, index), "SetDynPopCorrIndex", <<p, index>>)

ChangeLattice ==
    /\ Becomes(ChangeLatticeOp(Start), "ChangeLattice", 0)

SetUseDynPopCorr(b) ==
    /\ b # mUseDynPopCorr
    /\ Becomes(SetUseDynPopCorrOp(Start, b), "SetUseDynPopCorr", b)

CrystalInit(sg) ==
    /\ Becomes(InitOp(Start, sg), "Init", sg)

\* the next state and the value returned are the pair r
Returns(r, op) == Becomes(r[1], op, r[2])

\* the component list of c is returned
ListReturned(c) == <<c, c.mScattCompList>>

GetScatteringComponentList ==
    /\ Returns(ListReturned(GetScatteringComponentListOp(Start)),
               "GetScatteringComponentList")

\* the table of c is returned, with the argument it was asked for
MinDistanceTableReturned(c, minDistance) ==
    <<c, [ minDistance |-> minDistance, table |-> MinDistanceTableOf(c, minDistance) ]>>

GetMinDistanceTable(minDistance) ==
    /\ Returns(MinDistanceTableReturned(CalcDistTableOp(Start, DefaultAsymUnitMargin),
                                        minDistance),
               "GetMinDistanceTable")

GetBumpMergeCost ==
    /\ Returns(GetBumpMergeCostOp(Start), "GetBumpMergeCost")

GetBondValenceCost ==
    /\ Returns(GetBondValenceCostOp(Start), "GetBondValenceCost")

CIFOutput ==
    /\ Returns(CIFOutputOp(Start), "CIFOutput")

PrintCrystal ==
    /\ Returns(PrintOp(Start), "Print")

SetBumpMergeDistance(scatt1, scatt2, dist, allowMerge) ==
    /\ {scatt1, scatt2} \subseteq mScatteringPowerRegistry
    /\ Becomes(SetBumpMergeDistanceOp(Start, scatt1, scatt2, dist, allowMerge),
               "SetBumpMergeDistance", <<scatt1, scatt2, dist, allowMerge>>)

RemoveBumpMergeDistance(scatt1, scatt2) ==
    /\ {scatt1, scatt2} \subseteq mScatteringPowerRegistry
    /\ Becomes(RemoveBumpMergeDistanceOp(Start, scatt1, scatt2),
               "RemoveBumpMergeDistance", <<scatt1, scatt2>>)

AddBondValenceRo(pow1, pow2, ro) ==
    /\ {pow1, pow2} \subseteq mScatteringPowerRegistry
    /\ Becomes(AddBondValenceRoOp(Start, pow1, pow2, ro),
               "AddBondValenceRo", <<pow1, pow2, ro>>)

RemoveBondValenceRo(pow1, pow2) ==
    /\ {pow1, pow2} \subseteq mScatteringPowerRegistry
    /\ Becomes(RemoveBondValenceRoOp(Start, pow1, pow2),
               "RemoveBondValenceRo", <<pow1, pow2>>)

\* the species must not be in use by an atom: the code deletes it
RemoveScatteringPower(scattPow) ==
    /\ scattPow \in mScatteringPowerRegistry
    /\ \A s \in ScattIds : scatt[s].exists => scatt[s].mpScattPow # scattPow
    /\ Becomes(RemoveScatteringPowerOp(Start, scattPow), "RemoveScatteringPower", scattPow)

-----------------------------------------------------------------------------
(* Crystals after their set-up *)

\* the crystal with both atoms added, in the order 1, 2
Populated(sg, p1, p2, pow2, bumpScale, bvScale) ==
    AddScattererOp(AddScattererOp(Constructed(sg, p1, p2, pow2, bumpScale, bvScale), 1), 2)

\* the crystal c with atom 1 of species pow1 and a third atom, of species pow3
\* at p3, constructed after the others
WithThirdAtom(c, pow1, p3, pow3) ==
    [c EXCEPT !.tick = c.tick + 1,
              !.scatt = [ s \in 1..3 |->
                  IF s = 3 THEN [ mX |-> p3[1], mY |-> p3[2], mZ |-> p3[3],
                                  mOccupancy |-> DynPopUnit, mpScattPow |-> pow3,
                                  mClockScatterer |-> c.tick + 1, exists |-> TRUE ]
                  ELSE IF s = 1 THEN [c.scatt[1] EXCEPT !.mpScattPow = pow1]
                  ELSE c.scatt[s] ]]

\* the crystal c with the species pair (1, 2) given a minimum distance that
\* forbids overlap and a bond-valence reference length
Configured(c) ==
    AddBondValenceRoOp(SetBumpMergeDistanceOp(c, 1, 2, BumpDist, FALSE), 1, 2, BondRo)

-----------------------------------------------------------------------------
(* Spec: the caches of a crystal.  The atoms are added, moved and removed, the
   lattice and the option change, and the getters are called *)

Init ==
    \E sc \in {<<TRUE, ScaleUnit, ScaleUnit>>, <<TRUE, ScaleThreshold - 1, ScaleUnit>>,
               <<TRUE, ScaleUnit, ScaleThreshold - 1>>, <<FALSE, ScaleUnit, ScaleUnit>>} :
        Holds(IF sc[1] THEN Configured(Populated("P21", PosA, PosB, 2, sc[2], sc[3]))
                       ELSE Populated("P21", PosA, PosB, 2, sc[2], sc[3]))

Next ==
    \/ \E s \in ScattIds : MoveScatterer(s, PosC)
    \/ ChangeLattice
    \/ \E b \in {0, 1} : SetUseDynPopCorr(b)
    \/ GetScatteringComponentList
    \/ GetBumpMergeCost
    \/ GetBondValenceCost

Spec == Init /\ [][Next]_vars

-----------------------------------------------------------------------------
(* Properties of the caches *)

\* the variables but the instrumentation
state == << tick, scatt, mSpaceGroup, mScattererRegistry, mScatteringPowerRegistry,
            mDynPopCorrIndex,
            mUseDynPopCorr, mRandomMoveIsDone, mClockMaster, mClockMetricMatrix,
           mClockScattererList,
            mMasterClockScatteringPower, mScattCompList, mClockScattCompList,
            mvDistTableSq, mDistTableClock, mClockDynPopCorr,
            mvBumpMergePar, mBumpMergeParClock, mBumpMergeCost, mBumpMergeCostClock,
            mBumpMergeScale, mvBondValenceRo, mBondValenceParClock,
            mvBondValenceCalc, mBondValenceCalcClock, mBondValenceCost,
            mBondValenceCostClock, mBondValenceCostScale >>

\* the clocks of the artifacts
artifactClocks == << mClockScattCompList, mDistTableClock, mClockDynPopCorr,
                     mBumpMergeCostClock, mBondValenceCalcClock, mBondValenceCostClock >>

\* the bump-merge cost (resp. the bond-valence cost) is not disabled
BumpMergeEnabled == DOMAIN mvBumpMergePar # {} /\ mBumpMergeScale >= ScaleThreshold
BondValenceEnabled == DOMAIN mvBondValenceRo # {} /\ mBondValenceCostScale >= ScaleThreshold

\* artifact a is in the log of recomputations
Recomputed(l, a) == \E k \in 1..Len(l) : l[k] = a

\* C3: GetBumpMergeCost (resp. GetBondValenceCost) called right after itself
\* returns the same value, and the second call recomputes nothing: the log of
\* recomputations is empty and no artifact clock advances
C3_CostGetterIdempotent ==
    [][ (lastOp = lastOp' /\ lastOp' \in {"GetBumpMergeCost", "GetBondValenceCost"})
          => /\ ret' = ret
             /\ log' = << >>
             /\ artifactClocks' = artifactClocks
             /\ mScattCompList' = mScattCompList /\ mvDistTableSq' = mvDistTableSq
             /\ mvBondValenceCalc' = mvBondValenceCalc
             /\ mBumpMergeCost' = mBumpMergeCost /\ mBondValenceCost' = mBondValenceCost
      ]_vars

\* a cost getter gave a cost other than 0 from its cache, recomputing nothing
C3_Witness ==
    /\ lastOp = "GetBondValenceCost"
    /\ BondValenceEnabled
    /\ log = << >>
    /\ mBondValenceCostClock > 0
    /\ ret = mBondValenceCost * mBondValenceCostScale /\ ret > 0

\* a registered scatterer has changed since the clock value t
ChangedSince(t) ==
    \E i \in 1..Len(mScattererRegistry) : scatt[mScattererRegistry[i]].mClockScatterer > t

\* the operations that read the component list, and those that read the table
ListReaders ==
    {"GetScatteringComponentList"}
        \cup (IF BumpMergeEnabled THEN {"GetBumpMergeCost"} ELSE {})
        \cup (IF BondValenceEnabled THEN {"GetBondValenceCost"} ELSE {})
TableReaders == ListReaders \ {"GetScatteringComponentList"}

\* C4: once a registered scatterer has moved (its clock is ahead of an
\* artifact's clock), the next read of the artifact recomputes it, with no call
\* that clears a cache: the component list and, the option being on, the
\* correction factors on the next read of the list, the table on the next read
\* of the table, each cost (and the valence sums) on the next call of its getter
C4_MoveInvalidates ==
    [][ /\ (ChangedSince(mClockScattCompList) /\ lastOp' \in ListReaders)
              => /\ Recomputed(log', "list")
                 /\ mUseDynPopCorr = 1 => Recomputed(log', "dyn")
        /\ (ChangedSince(mDistTableClock) /\ lastOp' \in TableReaders)
              => Recomputed(log', "table")
        /\ (ChangedSince(mBumpMergeCostClock) /\ BumpMergeEnabled
                /\ lastOp' = "GetBumpMergeCost")
              => Recomputed(log', "bump")
        /\ (ChangedSince(mBondValenceCalcClock) /\ BondValenceEnabled
                /\ lastOp' = "GetBondValenceCost")
              => Recomputed(log', "bvsum")
        /\ (ChangedSince(mBondValenceCostClock) /\ BondValenceEnabled
                /\ lastOp' = "GetBondValenceCost")
              => Recomputed(log', "bvcost")
      ]_vars

\* the bump-merge cost was computed, then an atom was moved, and
\* GetBondValenceCost has now rebuilt the list, the table, the correction
\* factors, the valence sums and the cost
C4_Witness ==
    /\ lastOp = "GetBondValenceCost"
    /\ log = <<"list", "table", "dyn", "bvsum", "bvcost">>
    /\ \E s \in ScattIds :
           /\ IsRegistered(Self, s)
           /\ <<scatt[s].mX, scatt[s].mY, scatt[s].mZ>> = PosC
           /\ 0 < mBumpMergeCostClock
           /\ mBumpMergeCostClock < scatt[s].mClockScatterer
           /\ scatt[s].mClockScatterer < mClockScattCompList

\* C8: GetBumpMergeCost returns 0 when the map of bump-merge parameters is
\* empty or the scale factor is below 1e-5, and then it leaves the component
\* list, the table, the cached cost and every clock as they were
C8_DisabledBumpMergeCostTouchesNothing ==
    [][ (lastOp' = "GetBumpMergeCost" /\ ~BumpMergeEnabled)
          => ret' = 0 /\ log' = << >> /\ state' = state
      ]_vars

\* GetBumpMergeCost has returned 0 for a scale factor below 1e-5 while the
\* component list is still out of date
C8_Witness ==
    /\ lastOp = "GetBumpMergeCost"
    /\ DOMAIN mvBumpMergePar # {} /\ mBumpMergeScale < ScaleThreshold
    /\ NeedsUpdate(Self)
    /\ ret = 0

-----------------------------------------------------------------------------
(* SpecList: the registry of scatterers.  The atoms are constructed; they are
   added, moved and removed, and the list and the table are read *)

InitList ==
    \E sg \in {"P1", "P21"} : Holds(Constructed(sg, PosA, PosB, 2, ScaleUnit, ScaleUnit))

NextList ==
    \/ \E s \in ScattIds : AddScatterer(s)
    \/ \E s \in ScattIds : RemoveScatterer(s)
    \/ \E s \in ScattIds : MoveScatterer(s, PosC)
    \/ GetScatteringComponentList
    \/ GetMinDistanceTable(-Angstroem)

SpecList == InitList /\ [][NextList]_vars

\* the site of a component: what its scatterer gives
Site(comp) == [ mX |-> comp.mX, mY |-> comp.mY, mZ |-> comp.mZ,
                mOccupancy |-> comp.mOccupancy, mpScattPow |-> comp.mpScattPow ]

\* the sites of a component list
Sites(l) == [ i \in 1..Len(l) |-> Site(l[i]) ]

\* C5: the list returned by GetScatteringComponentList is the concatenation, in
\* order, of the component lists of exactly the scatterers registered now: the
\* components of an added scatterer are in it, those of a removed one are not
C5_ListIsRegisteredScatterers ==
    lastOp = "GetScatteringComponentList"
        => Sites(ret) = Sites(ConcatComponentLists(Self))

-----------------------------------------------------------------------------
(* SpecPar: the maps of pair parameters.  Entries are set and removed with the
   species in either order, and species are removed *)

InitPar ==
    Holds(GetBondValenceCostOp(
              Configured(Populated("P21", PosA, PosB, 1, ScaleUnit, ScaleUnit)))[1])

NextPar ==
    \/ \E pair \in PairArgs, par \in BumpArgs :
           SetBumpMergeDistance(pair[1], pair[2], par[1], par[2])
    \/ \E pair \in PairArgs : RemoveBumpMergeDistance(pair[1], pair[2])
    \/ \E pair \in PairArgs, ro \in RoArgs : AddBondValenceRo(pair[1], pair[2], ro)
    \/ \E pair \in PairArgs : RemoveBondValenceRo(pair[1], pair[2])
    \/ \E scattPow \in Species : RemoveScatteringPower(scattPow)

SpecPar == InitPar /\ [][NextPar]_vars

\* the keys of map m are species pairs with the smaller address first, and no
\* two of them are the same unordered pair
KeysNormalized(m) ==
    /\ \A k \in DOMAIN m : k[1] <= k[2]
    /\ \A k1 \in DOMAIN m, k2 \in DOMAIN m : {k1[1], k1[2]} = {k2[1], k2[2]} => k1 = k2

\* map m holds, for the unordered pair of p1 and p2, the one entry v
HoldsOnly(m, p1, p2, v) ==
    /\ Cardinality({ k \in DOMAIN m : {k[1], k[2]} = {p1, p2} }) = 1
    /\ \A k \in DOMAIN m : {k[1], k[2]} = {p1, p2} => m[k] = v

\* C6: each of the two maps holds at most one entry for an unordered pair of
\* species, under the key with the smaller address first; after an entry is
\* set, whatever the order of the species, the pair has one entry and it holds
\* the value just set
C6_OneEntryPerUnorderedPair ==
    /\ KeysNormalized(mvBumpMergePar)
    /\ KeysNormalized(mvBondValenceRo)
    /\ lastOp = "SetBumpMergeDistance"
          => HoldsOnly(mvBumpMergePar, ret[1], ret[2], BumpMergePar(ret[3], ret[4]))
    /\ lastOp = "AddBondValenceRo"
          => HoldsOnly(mvBondValenceRo, ret[1], ret[2], ret[3])

\* the pair of species 1 and 2 has just been set with species 2 given first,
\* to a value other than the one set before, and a second pair has an entry
C6_Witness ==
    /\ lastOp = "SetBumpMergeDistance"
    /\ ret = <<2, 1, OverlapDist, TRUE>>
    /\ mvBumpMergePar[<<1, 2>>] = BumpMergePar(OverlapDist, TRUE)
    /\ Cardinality(DOMAIN mvBumpMergePar) = 2
    /\ DOMAIN mvBondValenceRo # {}

\* in the step from map m to map n the entries with species p are erased and
\* the others are left as they were
ErasedOnly(m, n, p) ==
    /\ DOMAIN n = { k \in DOMAIN m : k[1] # p /\ k[2] # p }
    /\ \A k \in DOMAIN n : n[k] = m[k]

\* C7: after RemoveScatteringPower(p) neither map has an entry whose key has p
\* as a member, every other entry is unchanged, and the clock of a map
\* advances only if an entry of that map was erased
C7_RemoveScatteringPowerCleansMaps ==
    [][ lastOp' = "RemoveScatteringPower"
          => /\ ErasedOnly(mvBumpMergePar, mvBumpMergePar', ret')
             /\ ErasedOnly(mvBondValenceRo, mvBondValenceRo', ret')
             /\ mBumpMergeParClock' # mBumpMergeParClock
                   => DOMAIN mvBumpMergePar' # DOMAIN mvBumpMergePar
             /\ mBondValenceParClock' # mBondValenceParClock
                   => DOMAIN mvBondValenceRo' # DOMAIN mvBondValenceRo
      ]_vars

\* species 2 has been removed: the entries of the pair (2, 3) are gone from
\* both maps, whose clocks have advanced, and the entries of (3, 3) are kept
C7_Witness ==
    /\ lastOp = "RemoveScatteringPower" /\ ret = 2
    /\ DOMAIN mvBumpMergePar = {<<3, 3>>}
    /\ mBumpMergeParClock = tick - 1
    /\ mBondValenceParClock = tick
    /\ <<3, 3>> \in DOMAIN mvBondValenceRo

-----------------------------------------------------------------------------
(* SpecGeom: the geometry.  The crystal is any of the space groups with the two
   atoms at any of the positions, and the getters are called in any order.  The
   pair of species 1 and 2 is configured; in the last crystals only the pair of
   species 2 with itself has a reference length *)

InitGeom ==
    \/ \E sg \in SpaceGroups, p1 \in Positions, p2 \in Positions, pow2 \in SpeciesOrNull :
           Holds(Configured(Populated(sg, p1, p2, pow2, ScaleUnit, ScaleUnit)))
    \/ \E sg \in SpaceGroups, p1 \in Positions :
           Holds(Configured(AddScattererOp(
                     Constructed(sg, p1, PosB, 2, ScaleUnit, ScaleUnit), 1)))
    \/ \E sg \in SpaceGroups, p1 \in Positions :
           Holds(AddBondValenceRoOp(Populated(sg, p1, PosD, 2, ScaleUnit, ScaleUnit),
                                    2, 2, BondRo))

NextGeom ==
    \/ \E b \in {0, 1} : SetUseDynPopCorr(b)
    \/ \E minDistance \in MinDistances : GetMinDistanceTable(minDistance)
    \/ GetScatteringComponentList
    \/ GetBumpMergeCost
    \/ GetBondValenceCost

SpecGeom == InitGeom /\ [][NextGeom]_vars

-----------------------------------------------------------------------------
(* Properties of GetMinDistanceTable *)

\* GetMinDistanceTable has just returned
MinDistanceTableGiven == lastOp = "GetMinDistanceTable"

\* the least member of a non-empty set of numbers
Least(S) == CHOOSE x \in S : \A y \in S : x <= y

\* the squared distances of the records of component i's neighbour list that
\* are images of component i itself and lie farther than minDistance
SelfContacts(i, minDistance) ==
    { mvDistTableSq[i].mvNeighbour[k].mDist2 :
        k \in { k \in 1..Len(mvDistTableSq[i].mvNeighbour) :
                  /\ mvDistTableSq[i].mvNeighbour[k].mNeighbourIndex = i
                  /\ mvDistTableSq[i].mvNeighbour[k].mDist2 > MinOf(minDistance) } }

AcceptedContacts(i, j, minDistance) ==
    { k \in 1..Len(mvDistTableSq[i].mvNeighbour) :
        /\ mvDistTableSq[i].mvNeighbour[k].mNeighbourIndex = j
        /\ Accepted(mvDistTableSq[i], mvDistTableSq[i].mvNeighbour[k], MinOf(minDistance)) }

\* C2, as stated: an entry (i, j), i > j, for which component i's neighbour
\* list holds no accepted contact with component j reports a large distance,
\* never one below the 0.5 A under which CIFOutput takes j as redundant
C2_NoContactReportsSentinel ==
    MinDistanceTableGiven =>
        \A i \in 1..Len(ret.table), j \in 1..Len(ret.table) :
            (i > j /\ AcceptedContacts(i, j, ret.minDistance) = {})
                => ret.table[i][j] >= RedundantDist

\* C2, amended: an entry (i, j), i > j, for which component i's neighbour list
\* holds no accepted contact with component j reports 0; any other reports the
\* distance of the nearest accepted contact
C2_NoContactReportsZero ==
    MinDistanceTableGiven =>
        \A i \in 1..Len(ret.table), j \in 1..Len(ret.table) :
            i > j =>
                ret.table[i][j] =
                    IF AcceptedContacts(i, j, ret.minDistance) = {} THEN 0
                    ELSE Sqrt(Least({ mvDistTableSq[i].mvNeighbour[k].mDist2 :
                                        k \in AcceptedContacts(i, j, ret.minDistance) }))

\* a table is returned whose entry (2, 1) is 0 because every record of
\* component 1 in the neighbour list of component 2 was rejected
C2_Witness ==
    /\ MinDistanceTableGiven
    /\ Len(ret.table) = 2
    /\ AcceptedContacts(2, 1, ret.minDistance) = {}
    /\ \E k \in 1..Len(mvDistTableSq[2].mvNeighbour) :
           mvDistTableSq[2].mvNeighbour[k].mNeighbourIndex = 1
    /\ ret.table[2][1] = 0

-----------------------------------------------------------------------------
(* Properties of the bump-merge cost and of the correction factors *)

\* the minimum-image separation of two fixed-point coordinates along one axis
AxisSeparation(a, b) == Min((a - b) % FRAC2LONG, (b - a) % FRAC2LONG)

\* the squared minimum-image distance of two positions
ImageDist2(p, q) ==
    AxisSeparation(p[1], q[1]) * AxisSeparation(p[1], q[1])
        + AxisSeparation(p[2], q[2]) * AxisSeparation(p[2], q[2])
        + AxisSeparation(p[3], q[3]) * AxisSeparation(p[3], q[3])

\* the symmetry images of registered scatterer s
Images(s) ==
    { GetAllSymmetrics(mSpaceGroup, scatt[s].mX, scatt[s].mY, scatt[s].mZ)[g] :
        g \in 1..GetNbSymmetrics(mSpaceGroup) }

\* two registered atoms of a species pair that must not overlap have images
\* closer than the minimum distance of the pair
ForbiddenContact ==
    \E i \in 1..Len(mScattererRegistry), j \in 1..Len(mScattererRegistry) :
        /\ i # j
        /\ PairKey(scatt[mScattererRegistry[i]].mpScattPow,
                   scatt[mScattererRegistry[j]].mpScattPow) \in DOMAIN mvBumpMergePar
        /\ ~mvBumpMergePar[PairKey(scatt[mScattererRegistry[i]].mpScattPow,
                                  scatt[mScattererRegistry[j]].mpScattPow)].mCanOverlap
        /\ \E p \in Images(mScattererRegistry[i]), q \in Images(mScattererRegistry[j]) :
               ImageDist2(p, q) <
                   mvBumpMergePar[PairKey(scatt[mScattererRegistry[i]].mpScattPow,
                                          scatt[mScattererRegistry[j]].mpScattPow)].mDist2

\* C9: with a scale factor of at least 1e-5, when two components of a species
\* pair that cannot overlap have symmetry images closer than the minimum
\* distance of the pair, GetBumpMergeCost returns a value above 0, whichever
\* getter was called before it
C9_ForbiddenContactCosts ==
    (lastOp = "GetBumpMergeCost" /\ mBumpMergeScale >= ScaleThreshold /\ ForbiddenContact)
        => ret > 0

\* the records of component i's neighbour list whose component has the same
\* dynamical-correction index as component i and lies within dist of it
SameIdentityWithin(i, dist) ==
    { k \in 1..Len(mvDistTableSq[i].mvNeighbour) :
        /\ mScattCompList[mvDistTableSq[i].mvNeighbour[k].mNeighbourIndex].mpScattPow # 0
        /\ mScattCompList[i].mpScattPow # 0
        /\ GetDynPopCorrIndex(Self,
               mScattCompList[mvDistTableSq[i].mvNeighbour[k].mNeighbourIndex].mpScattPow)
             = GetDynPopCorrIndex(Self, mScattCompList[i].mpScattPow)
        /\ mvDistTableSq[i].mvNeighbour[k].mDist2 <= dist * dist }

\* the correction factors are those CalcDynPopCorr computed from the table
DynPopCorrComputed == mUseDynPopCorr = 1 /\ mClockDynPopCorr > mDistTableClock

\* C10: for a component i with a species whose k neighbour records of the same
\* identity index within mergeDist are all its records of that identity nearer
\* than overlapDist, CalcDynPopCorr sets the correction factor 1/(1+k): 1 with
\* no such neighbour, 0.5 with one
C10_DynPopCorrIsOneOverOnePlusK ==
    DynPopCorrComputed =>
        \A i \in 1..Len(mScattCompList) :
            ( /\ mScattCompList[i].mpScattPow # 0
              /\ \A k \in SameIdentityWithin(i, OverlapDist) :
                     \/ k \in SameIdentityWithin(i, MergeDist)
                     \/ mvDistTableSq[i].mvNeighbour[k].mDist2 = OverlapDist * OverlapDist )
                => mScattCompList[i].mDynPopCorr
                     * (1 + Cardinality(SameIdentityWithin(i, MergeDist))) = DynPopUnit

\* two atoms of the same identity index sit at the same place and have no
\* other neighbour within overlapDist: the factor of each is 0.5
C10_Witness ==
    /\ DynPopCorrComputed
    /\ Len(mScattCompList) = 2
    /\ Site(mScattCompList[1]).mX = Site(mScattCompList[2]).mX
    /\ \A i \in 1..2 :
           /\ Cardinality(SameIdentityWithin(i, OverlapDist)) = 1
           /\ Cardinality(SameIdentityWithin(i, MergeDist)) = 1
           /\ 2 * mScattCompList[i].mDynPopCorr = DynPopUnit

-----------------------------------------------------------------------------
(* Properties of components without a species *)

\* component i of the list has no species
NullSpecies(i) == mScattCompList[i].mpScattPow = 0

\* the neighbour list of component i without the records of components that
\* have no species; nothing is left of it when component i has none itself
SpeciesRecords(i) ==
    IF NullSpecies(i) THEN << >>
    ELSE SelectSeq(mvDistTableSq[i].mvNeighbour,
                   LAMBDA nb : mScattCompList[nb.mNeighbourIndex].mpScattPow # 0)

\* the crystal as it would be were the components without a species absent
\* from the table, as origins and as neighbours
WithoutNullSpecies ==
    [Self EXCEPT !.mvDistTableSq =
        AsSeq([ i \in 1..Len(mvDistTableSq) |->
                  [mvDistTableSq[i] EXCEPT !.mvNeighbour = SpeciesRecords(i)] ])]

\* the table is that of the current component list
TableCurrent ==
    /\ mDistTableClock > mClockScattCompList
    /\ Len(mvDistTableSq) = Len(mScattCompList)

\* C11: a component without a species has the correction factor 1 and is left
\* out of every species-dependent sum: the factors of the other components,
\* the bump-merge cost and the valence sums are what they would be without it
\* in the table; it has no valence sum (so that the cost loop, which reads the
\* formal charge of every component that has a sum, does not fail)
C11_NullSpeciesExcluded ==
    /\ \A i \in 1..Len(mScattCompList) :
           NullSpecies(i) => mScattCompList[i].mDynPopCorr = DynPopUnit
    /\ (DynPopCorrComputed /\ TableCurrent) =>
           \A i \in 1..Len(mScattCompList) :
               mScattCompList[i].mDynPopCorr
                   = DynPopCorrComponent(WithoutNullSpecies, i, OverlapDist, MergeDist)
    /\ (lastOp = "GetBumpMergeCost" /\ BumpMergeEnabled) =>
           mBumpMergeCost = BumpMergeCostOf(WithoutNullSpecies)
    /\ (lastOp = "GetBondValenceCost" /\ BondValenceEnabled) =>
           /\ \A i \in DOMAIN mvBondValenceCalc : ~NullSpecies(i)
           /\ mvBondValenceCalc = BondValenceCalcOf(WithoutNullSpecies)

\* both costs were computed for a crystal whose second component has no
\* species and lies within overlapDist of the first, which keeps the factor 1
\* and, having no neighbour of the configured pair, has no valence sum
C11_Witness ==
    /\ lastOp = "GetBondValenceCost" /\ BondValenceEnabled
    /\ mBumpMergeCostClock > mDistTableClock
    /\ DynPopCorrComputed /\ TableCurrent
    /\ Len(mScattCompList) = 2
    /\ ~NullSpecies(1) /\ NullSpecies(2)
    /\ \E k \in 1..Len(mvDistTableSq[1].mvNeighbour) :
           /\ mvDistTableSq[1].mvNeighbour[k].mNeighbourIndex = 2
           /\ mvDistTableSq[1].mvNeighbour[k].mDist2 < OverlapDist * OverlapDist
    /\ mScattCompList[1].mDynPopCorr = DynPopUnit
    /\ mvBondValenceCalc = << >>

-----------------------------------------------------------------------------
(* Properties of the bond-valence cost and of the valence sums *)

\* the valence sum of component i less the formal charge of its species
ValenceMisfit(i) == mvBondValenceCalc[i] - GetFormalCharge(mScattCompList[i].mpScattPow)

\* the sum of the squared misfits of the components of S
RECURSIVE SumSquaredMisfits(_)
SumSquaredMisfits(S) ==
    IF S = {} THEN 0
    ELSE SumSquaredMisfits(S \ {CHOOSE i \in S : TRUE})
             + ValenceMisfit(CHOOSE i \in S : TRUE) * ValenceMisfit(CHOOSE i \in S : TRUE)

\* C12: GetBondValenceCost returns 0 when no reference length is configured or
\* the scale factor is below 1e-5; otherwise it returns the scale factor times
\* the sum, over the components that have a valence sum, of the squared
\* difference of the sum and the formal charge, which is 0 exactly when every
\* sum is the formal charge
C12_BondValenceCostIsScaledSquaredMisfit ==
    lastOp = "GetBondValenceCost" =>
        IF ~BondValenceEnabled THEN ret = 0
        ELSE /\ ret = mBondValenceCostScale * SumSquaredMisfits(DOMAIN mvBondValenceCalc)
             /\ ret = 0 <=> \A i \in DOMAIN mvBondValenceCalc : ValenceMisfit(i) = 0

\* the cost of two components with valence sums was returned from the cache
\* and is not 0
C12_Witness ==
    /\ lastOp = "GetBondValenceCost" /\ BondValenceEnabled
    /\ log = << >>
    /\ DOMAIN mvBondValenceCalc = {1, 2}
    /\ ret > 0

\* the valence sums are those CalcBondValenceSum computed from the table
ValenceSumsComputed == lastOp = "GetBondValenceCost" /\ BondValenceEnabled

\* the key of the pair made of component i and of the component of record nb
BondKey(i, nb) ==
    PairKey(mScattCompList[i].mpScattPow, mScattCompList[nb.mNeighbourIndex].mpScattPow)

\* the occupancy of the component of record nb, and the same times its
\* dynamical correction factor
NominalOccupancy(nb) == mScattCompList[nb.mNeighbourIndex].mOccupancy
CorrectedOccupancy(nb) ==
    (mScattCompList[nb.mNeighbourIndex].mOccupancy
        * mScattCompList[nb.mNeighbourIndex].mDynPopCorr) \div DynPopUnit

\* the bonds of component i: the records whose pair has a reference length
Bonds(i) ==
    SelectSeq(mvDistTableSq[i].mvNeighbour,
              LAMBDA nb : BondKey(i, nb) \in DOMAIN mvBondValenceRo)

\* the valence sum of component i with the bonds weighted by Weight
WeightedValenceSum(i, Weight(_)) ==
    SumSeq(AsSeq([ k \in 1..Len(Bonds(i)) |->
        (Weight(Bonds(i)[k])
            * ExpBondValence(mvBondValenceRo[BondKey(i, Bonds(i)[k])]
                                 - Sqrt(Bonds(i)[k].mDist2))) \div DynPopUnit ]))

\* C13, as stated: the weight of a bond in the valence sum of component i is
\* the occupancy of the neighbour alone, whatever its correction factor
C13_WeightIsNominalOccupancy ==
    ValenceSumsComputed =>
        \A i \in DOMAIN mvBondValenceCalc :
            mvBondValenceCalc[i] = WeightedValenceSum(i, NominalOccupancy)

\* C13, amended: the weight of a bond in the valence sum of component i is the
\* occupancy of the neighbour times its dynamical correction factor
C13_WeightIsCorrectedOccupancy ==
    ValenceSumsComputed =>
        \A i \in DOMAIN mvBondValenceCalc :
            mvBondValenceCalc[i] = WeightedValenceSum(i, CorrectedOccupancy)

\* a component has a valence sum above 0 made of bonds to a neighbour whose
\* correction factor is below 1: the sum is less than with the occupancy alone
C13_Witness ==
    /\ ValenceSumsComputed
    /\ \E i \in DOMAIN mvBondValenceCalc :
           /\ mvBondValenceCalc[i] > 0
           /\ mvBondValenceCalc[i] < WeightedValenceSum(i, NominalOccupancy)
           /\ \A k \in 1..Len(Bonds(i)) :
                  mScattCompList[Bonds(i)[k].mNeighbourIndex].mDynPopCorr < DynPopUnit

\* C14: the valence sums hold an entry for component i if and only if a record
\* of its neighbour list has a species pair with a reference length; a
\* component with no such record has no entry, not an entry of 0
C14_EntryIffBond ==
    ValenceSumsComputed =>
        DOMAIN mvBondValenceCalc
            = { i \in 1..Len(mScattCompList) : Len(Bonds(i)) > 0 }

\* of two components with neighbours, one has bonds, whose terms are all 0,
\* and has the entry 0; the other has none and has no entry
C14_Witness ==
    /\ ValenceSumsComputed
    /\ Len(mScattCompList) = 2
    /\ \E i \in 1..2, j \in 1..2 :
           /\ i \in DOMAIN mvBondValenceCalc /\ mvBondValenceCalc[i] = 0
           /\ j \notin DOMAIN mvBondValenceCalc
           /\ Len(mvDistTableSq[j].mvNeighbour) > 0

-----------------------------------------------------------------------------
(* Properties of the table's cache *)

\* C15: a call of CalcDistTable (made by each cost getter that is not
\* disabled) rebuilds the table when, and only when, the clock of the component
\* list, as the call finds it once the list is up to date, or the clock of the
\* metric matrix is ahead of the table's clock; otherwise the table and its
\* clock are left as they were; after a rebuild the table's clock is ahead of
\* both clocks
C15_TableRebuiltIffDependencyAhead ==
    [][ lastOp' \in TableReaders
          => /\ Recomputed(log', "table")
                   <=> \/ mClockScattCompList' > mDistTableClock
                       \/ mClockMetricMatrix' > mDistTableClock
             /\ ~Recomputed(log', "table")
                   => mvDistTableSq' = mvDistTableSq /\ mDistTableClock' = mDistTableClock
             /\ Recomputed(log', "table")
                   => /\ mDistTableClock' > mClockScattCompList'
                      /\ mDistTableClock' > mClockMetricMatrix'
      ]_vars

\* GetBumpMergeCost has rebuilt the table, and not the component list, after a
\* change of the lattice
C15_Witness ==
    /\ lastOp = "GetBumpMergeCost" /\ BumpMergeEnabled
    /\ Recomputed(log, "table") /\ ~Recomputed(log, "list")
    /\ mClockMetricMatrix > mClockScattCompList
    /\ mClockScattCompList > 0
    /\ mDistTableClock > mClockMetricMatrix

-----------------------------------------------------------------------------
(* Properties of the table *)

\* the table has been built, from the current component list
TableBuilt == mDistTableClock > 0 /\ TableCurrent

\* the greatest member of a non-empty set of numbers
Greatest(S) == CHOOSE x \in S : \A y \in S : y <= x

\* the symmetry indices of the equivalents of component i that lie inside the
\* bounds of the asymmetric unit
InsideIndices(i) ==
    { j \in 0..(GetNbSymmetrics(mSpaceGroup) - 1) :
        InAsymUnit(mSpaceGroup, EquivPositions(Self, i)[j + 1]) }

\* C16, as stated: the unique symmetry index of a component is the smallest
\* symmetry index whose equivalent lies inside the bounds of the asymmetric
\* unit when the restriction is on, and 0, the first equivalent generated,
\* when it is off
C16_UniqueIsFirstInside ==
    TableBuilt =>
        \A i \in 1..Len(mvDistTableSq) :
            mvDistTableSq[i].mUniquePosSymmetryIndex
                = IF UseAsymUnit(mSpaceGroup) THEN Least(InsideIndices(i)) ELSE 0

\* C16, amended: the unique symmetry index of a component is the largest
\* symmetry index whose equivalent lies inside the bounds of the asymmetric
\* unit when the restriction is on (and there is one), and N-1, the last
\* equivalent generated, when it is off
C16_UniqueIsLastInside ==
    TableBuilt =>
        \A i \in 1..Len(mvDistTableSq) :
            IF UseAsymUnit(mSpaceGroup)
            THEN InsideIndices(i) # {}
                    => mvDistTableSq[i].mUniquePosSymmetryIndex = Greatest(InsideIndices(i))
            ELSE mvDistTableSq[i].mUniquePosSymmetryIndex
                    = GetNbSymmetrics(mSpaceGroup) - 1

\* with the restriction on, both equivalents of a component lie inside the
\* bounds and the second is its unique position
C16_Witness ==
    /\ TableBuilt
    /\ UseAsymUnit(mSpaceGroup)
    /\ \E i \in 1..Len(mvDistTableSq) :
           /\ InsideIndices(i) = {0, 1}
           /\ mvDistTableSq[i].mUniquePosSymmetryIndex = 1

\* the equivalent positions the last build retained, each as
\* << component, symmetry index >>
Retained ==
    { p \in (1..Len(mScattCompList)) \X (0..(GetNbSymmetrics(mSpaceGroup) - 1)) :
        \/ ~UseAsymUnit(mSpaceGroup)
        \/ NearAsymUnit(mSpaceGroup, tableMargin, EquivPositions(Self, p[1])[p[2] + 1]) }

\* the positions of the records of component i's neighbour list
RecordPositions(i) ==
    { <<mvDistTableSq[i].mvNeighbour[k].mNeighbourIndex,
        mvDistTableSq[i].mvNeighbour[k].mNeighbourSymmetryIndex>> :
        k \in 1..Len(mvDistTableSq[i].mvNeighbour) }

C18_RecordsInInsertionOrder ==
    TableBuilt =>
        \A i \in 1..Len(mvDistTableSq) :
            \A k \in 1..Len(mvDistTableSq[i].mvNeighbour),
               l \in 1..Len(mvDistTableSq[i].mvNeighbour) :
                k < l =>
                    \/ mvDistTableSq[i].mvNeighbour[k].mNeighbourIndex
                          < mvDistTableSq[i].mvNeighbour[l].mNeighbourIndex
                    \/ /\ mvDistTableSq[i].mvNeighbour[k].mNeighbourIndex
                             = mvDistTableSq[i].mvNeighbour[l].mNeighbourIndex
                       /\ mvDistTableSq[i].mvNeighbour[k].mNeighbourSymmetryIndex
                             < mvDistTableSq[i].mvNeighbour[l].mNeighbourSymmetryIndex

\* a list of three records, of both components, whose distances neither
\* ascend nor descend
C18_Witness ==
    /\ TableBuilt
    /\ \E i \in 1..Len(mvDistTableSq) :
           /\ Len(mvDistTableSq[i].mvNeighbour) = 3
           /\ mvDistTableSq[i].mvNeighbour[1].mNeighbourIndex = 1
           /\ mvDistTableSq[i].mvNeighbour[3].mNeighbourIndex = 2
           /\ mvDistTableSq[i].mvNeighbour[1].mDist2 > mvDistTableSq[i].mvNeighbour[2].mDist2
           /\ mvDistTableSq[i].mvNeighbour[2].mDist2 < mvDistTableSq[i].mvNeighbour[3].mDist2

-----------------------------------------------------------------------------
(* SpecFold: the per-axis fold of the fast path, applied to the difference of
   two fixed-point coordinates of [0, FRAC2LONG) *)

\* coordinates at and around the eighths of the period
FoldCoords ==
    { q * (FRAC2LONG \div 8) + e :
        q \in 0..7, e \in {0, 1, (FRAC2LONG \div 8) - 1} }

InitFold ==
    Holds(Constructed("P1", PosA, PosB, 2, ScaleUnit, ScaleUnit))

\* lines 1348 and 1353-1357: x of vPos[j] less x of the reference, masked and folded
FoldDifference(a, b) ==
    /\ Becomes(Start, "FoldAxis", <<a, b, FoldAxis(b - a)>>)

NextFold ==
    \/ \E a \in FoldCoords, b \in FoldCoords : FoldDifference(a, b)

SpecFold == InitFold /\ [][NextFold]_vars

\* C19: for coordinates a and b of [0, 2^14) the masked and folded difference
\* is the minimum-image magnitude min(m, 2^14 - m), m = (b - a) mod 2^14
C19_FoldIsMinimumImage ==
    lastOp = "FoldAxis"
        => ret[3] = Min((ret[2] - ret[1]) % FRAC2LONG,
                        FRAC2LONG - ((ret[2] - ret[1]) % FRAC2LONG))

-----------------------------------------------------------------------------
(* SpecClock: the clocks of the artifacts.  The crystal is initialised again,
   the option changes, an atom moves, and the getters are called *)

InitClock ==
    Holds(Configured(Populated("P21", PosA, PosB, 2, ScaleUnit, ScaleUnit)))

NextClock ==
    \/ \E sg \in {"P21", "Pm"} : CrystalInit(sg)
    \/ \E b \in {0, 1} : SetUseDynPopCorr(b)
    \/ \E s \in ScattIds : MoveScatterer(s, PosC)
    \/ GetScatteringComponentList
    \/ GetBumpMergeCost
    \/ GetBondValenceCost

SpecClock == InitClock /\ [][NextClock]_vars

\* C20: along every sequence of operations, SetUseDynPopCorr, Init and the
\* rebuilds of the component list with the option off included, the clock of
\* each artifact (component list, table, correction, bump-merge cost, valence
\* sums, bond-valence cost) never decreases
C20_ArtifactClocksNeverDecrease ==
    [][ /\ mClockScattCompList' >= mClockScattCompList
        /\ mDistTableClock' >= mDistTableClock
        /\ mClockDynPopCorr' >= mClockDynPopCorr
        /\ mBumpMergeCostClock' >= mBumpMergeCostClock
        /\ mBondValenceCalcClock' >= mBondValenceCalcClock
        /\ mBondValenceCostClock' >= mBondValenceCostClock
      ]_vars

\* C20, amended: the clocks of the table, of the bump-merge cost, of the
\* valence sums and of the bond-valence cost never decrease; the clock of the
\* component list decreases only in Init and the clock of the correction only
\* in Init and SetUseDynPopCorr, and each then goes to zero
C20_ClocksDecreaseOnlyByReset ==
    [][ /\ mDistTableClock' >= mDistTableClock
        /\ mBumpMergeCostClock' >= mBumpMergeCostClock
        /\ mBondValenceCalcClock' >= mBondValenceCalcClock
        /\ mBondValenceCostClock' >= mBondValenceCostClock
        /\ mClockScattCompList' < mClockScattCompList
              => lastOp' = "Init" /\ mClockScattCompList' = 0
        /\ mClockDynPopCorr' < mClockDynPopCorr
              => lastOp' \in {"Init", "SetUseDynPopCorr"} /\ mClockDynPopCorr' = 0
      ]_vars

\* Init has just reset the clocks of a list and of a correction that had been
\* computed: the table and the costs built from them keep their clocks
C20_Witness ==
    /\ lastOp = "Init"
    /\ mClockScattCompList = 0 /\ mClockDynPopCorr = 0
    /\ mUseDynPopCorr = 1 /\ Len(mScattCompList) = 2
    /\ mDistTableClock > 0 /\ mBumpMergeCostClock > 0 /\ mBondValenceCostClock > 0

-----------------------------------------------------------------------------
(* SpecIdent: the correction factors after a change of the lattice or of the
   identity index of a species.  The option is on; the two atoms are of
   species 1 and 2 *)

InitIdent ==
    \E sg \in {"P1", "Pm"}, p1 \in {PosA, PosD} :
        Holds(Configured(Populated(sg, p1, PosD, 2, ScaleUnit, ScaleUnit)))

NextIdent ==
    \/ \E p \in {1, 2}, index \in {1, 2} : SetDynPopCorrIndex(p, index)
    \/ ChangeLattice
    \/ \E s \in ScattIds : MoveScatterer(s, PosC)
    \/ GetScatteringComponentList
    \/ GetBumpMergeCost

SpecIdent == InitIdent /\ [][NextIdent]_vars

\* C21: with the option on, the correction factors that
\* GetScatteringComponentList returns are those of the table and of the
\* identity indices as they are now, computed after the table was last built,
\* whether the table was rebuilt or an identity index changed since
C21_FactorsFollowTableAndIdentities ==
    ( /\ lastOp = "GetScatteringComponentList"
      /\ mUseDynPopCorr = 1
      /\ Len(mvDistTableSq) = Len(ret) )
        => /\ mClockDynPopCorr > mDistTableClock
           /\ \A i \in 1..Len(ret) :
                  ret[i].mDynPopCorr
                      = DynPopCorrComponent(Self, i, OverlapDist, MergeDist)

-----------------------------------------------------------------------------
(* Properties of the margin of the table *)

\* C22: with the restriction to the asymmetric unit enabled, the table a
\* consumer reads after CalcDistTable(fast, m) was built with a margin of at
\* least m: 3 A for GetBumpMergeCost, 5 A for CalcBondValenceSum, never the
\* 1 A of the build within the rebuild of the component list
C22_TableBuiltWithRequestedMargin ==
    UseAsymUnit(mSpaceGroup) =>
        /\ (lastOp = "GetBumpMergeCost" /\ BumpMergeEnabled)
               => tableMargin >= BumpMergeMargin
        /\ (lastOp = "GetBondValenceCost" /\ BondValenceEnabled)
               => tableMargin >= BondValenceMargin

-----------------------------------------------------------------------------
(* SpecUnit: the table of a crystal whose asymmetric unit begins below zero
   along x.  The bound test of line 1302 looks at the upper bounds only, and
   an atom may have no equivalent that passes it *)

InitUnit ==
    \E p1 \in Positions, p2 \in Positions :
        Holds(Configured(Populated("C1", p1, p2, 2, ScaleUnit, ScaleUnit)))

NextUnit ==
    \/ \E minDistance \in MinDistances : GetMinDistanceTable(minDistance)
    \/ GetScatteringComponentList
    \/ GetBumpMergeCost
    \/ GetBondValenceCost

SpecUnit == InitUnit /\ [][NextUnit]_vars

\* vPos of the build of the table, and in it the position that is the origin
\* of the distances of component i
TableVPos == BuildVPos(Self, tableMargin)
OriginOf(vPos, i) == vPos[VUniqueIndex(Self, vPos, i)]

\* C23: after a build of the table, the origin of the distances of every
\* component i is an equivalent of component i itself, and its symmetry index
\* is the uniquePosSymmetryIndex of i, also with the restriction enabled and
\* no equivalent of i passing the bound test
C23_OriginIsOwnEquivalent ==
    (TableBuilt /\ Len(TableVPos) > 0) =>
        \A i \in 1..Len(mvDistTableSq) :
            /\ OriginOf(TableVPos, i).mAtomIndex = i
            /\ OriginOf(TableVPos, i).mSymmetryIndex
                   = mvDistTableSq[i].mUniquePosSymmetryIndex

-----------------------------------------------------------------------------
(* Properties of the re-entry of GetScatteringComponentList *)

\* the number of rebuilds of the component list in the log l
ListRebuilds(l) == Cardinality({ k \in 1..Len(l) : l[k] = "list" })

\* C24: a call of GetScatteringComponentList ends, and rebuilds the list once
\* when the list is out of date and not at all otherwise: the call nested in
\* CalcDynPopCorr and CalcDistTable finds the clock of the list advanced and
\* rebuilds nothing, in whatever operation the rebuild takes place
C24_ListRebuiltOncePerCall ==
    [][ /\ ListRebuilds(log') <= 1
        /\ lastOp' = "GetScatteringComponentList"
              => /\ ListRebuilds(log') = 1
                       <=> (NeedsUpdate(Self) /\ mClockScattCompList <= mClockMaster)
                 /\ ret' = mScattCompList'
        /\ ListRebuilds(log') = 1
              => \A i \in 1..Len(mScattererRegistry') :
                     mClockScattCompList' >= scatt'[mScattererRegistry'[i]].mClockScatterer
      ]_vars

\* a scatterer had moved and the call has rebuilt the list, and within the
\* rebuild the table and the factors, through the nested call
C24_Witness ==
    /\ lastOp = "GetScatteringComponentList"
    /\ log = <<"list", "table", "dyn">>
    /\ <<scatt[1].mX, scatt[1].mY, scatt[1].mZ>> = PosC
    /\ mDistTableClock > mClockScattCompList
    /\ mClockDynPopCorr > mDistTableClock

-----------------------------------------------------------------------------
(* Properties of the option *)

\* C25: the call of GetScatteringComponentList that follows
\* SetUseDynPopCorr(0) returns every component with the factor 1, and the one
\* that follows SetUseDynPopCorr(1) returns the factors CalcDynPopCorr
\* computes, with no change of a scatterer in between
C25_OptionChangeSeenByNextRead ==
    [][ (lastOp = "SetUseDynPopCorr" /\ lastOp' = "GetScatteringComponentList")
          => IF mUseDynPopCorr' = 0
             THEN \A i \in 1..Len(ret') : ret'[i].mDynPopCorr = DynPopUnit
             ELSE /\ mClockDynPopCorr' > mDistTableClock'
                  /\ Len(mvDistTableSq') = Len(ret')
                  /\ \A i \in 1..Len(ret') :
                         ret'[i].mDynPopCorr
                             = DynPopCorrComponent(Self', i, OverlapDist, MergeDist)
      ]_vars

-----------------------------------------------------------------------------
(* SpecValence: the valence sums when reference lengths are removed.  The
   pairs (1, 2) and (3, 3) have a reference length and the valence sums of the
   two atoms, of species 1 and 2, have been computed *)

InitValence ==
    \E p1 \in {PosA, PosD} :
        Holds(GetBondValenceCostOp(
                  AddBondValenceRoOp(
                      Configured(Populated("P21", p1, PosB, 2, ScaleUnit, ScaleUnit)),
                      3, 3, BondRo))[1])

NextValence ==
    \/ \E pair \in PairArgs, ro \in RoArgs : AddBondValenceRo(pair[1], pair[2], ro)
    \/ \E pair \in PairArgs : RemoveBondValenceRo(pair[1], pair[2])
    \/ \E scattPow \in Species : RemoveScatteringPower(scattPow)
    \/ GetBondValenceCost
    \/ PrintCrystal

SpecValence == InitValence /\ [][NextValence]_vars

\* C26: once the last reference length has been removed, CalcBondValenceSum,
\* called by Print, leaves the map of the valence sums empty and Print gives
\* no valence: the entries computed before do not survive
C26_NoValenceWithoutReferenceLength ==
    (lastOp = "Print" /\ DOMAIN mvBondValenceRo = {})
        => /\ DOMAIN mvBondValenceCalc = {}
           /\ \A k \in 1..Len(ret) : ~ret[k].hasValence

-----------------------------------------------------------------------------
(* SpecOutput: Print and CIFOutput, with the getters, on crystals of three
   atoms in which any atom may be without a species *)

SpeciesOfAtoms == [1..3 -> {0, 1, 2}]

ThreeAtoms(sg, pow, p3) ==
    AddScattererOp(AddScattererOp(AddScattererOp(
        WithThirdAtom(Constructed(sg, PosE, PosD, pow[2], ScaleUnit, ScaleUnit),
                      pow[1], p3, pow[3]), 1), 2), 3)

InitOutput ==
    \E sg \in {"P1", "Pm"}, pow \in SpeciesOfAtoms, p3 \in {PosC, PosE} :
        Holds(Configured(ThreeAtoms(sg, pow, p3)))

NextOutput ==
    \/ CIFOutput
    \/ PrintCrystal
    \/ GetScatteringComponentList
    \/ GetBumpMergeCost
    \/ GetBondValenceCost

SpecOutput == InitOutput /\ [][NextOutput]_vars

\* C27: none of Print, CIFOutput and GetBondValenceCost reads the name, the
\* Biso or the formal charge of a component that has no species: each line
\* they produce, and each valence they weigh, is that of a component with one
C27_NoNullSpeciesDereferenced ==
    /\ lastOp \in {"Print", "CIFOutput"} =>
           \A n \in DOMAIN ret : ret[n].species # 0
    /\ lastOp = "GetBondValenceCost" =>
           \A i \in DOMAIN mvBondValenceCalc : mScattCompList[i].mpScattPow # 0

\* C28: in CIFOutput every read minDistTable(l,k) made for a written component
\* is made with k the index of that component in the list
C28_CIFIndexIsListIndex ==
    lastOp = "CIFOutput" =>
        \A n \in DOMAIN ret :
            ret[n].reads # {} => ret[n].k = ret[n].component - 1

-----------------------------------------------------------------------------
(* Crystal::GetGeneGroup.  The parameters are known by their addresses: those
   of the crystal are its six lattice parameters, the others belong to other
   objects.  groupIndex and first are unsigned int, and first is far from the
   end of its range *)

CrystalPars == <<1, 2, 3, 4, 5, 6>>

\* the body of the two loops for the parameter i of obj and j of the crystal
GetGeneGroupBody(objPar, st, i, j) ==
    IF objPar[i] # CrystalPars[j] THEN st
    ELSE IF st.latticeIndex = 0
         THEN [st EXCEPT !.latticeIndex = st.first,
                         !.first = st.first + 1,
                         !.groupIndex[i] = st.first]
         ELSE [st EXCEPT !.groupIndex[i] = st.latticeIndex]

\* the two loops, from the n-th pair (i, j) on, in the order of the code
RECURSIVE GetGeneGroupLoop(_, _, _)
GetGeneGroupLoop(objPar, st, n) ==
    IF n >= Len(objPar) * Len(CrystalPars) THEN st
    ELSE GetGeneGroupLoop(objPar,
                          GetGeneGroupBody(objPar, st, (n \div Len(CrystalPars)) + 1,
                                           (n % Len(CrystalPars)) + 1),
                          n + 1)

GetGeneGroupOp(objPar, groupIndex, first) ==
    GetGeneGroupLoop(objPar,
                     [ latticeIndex |-> 0, first |-> first, groupIndex |-> groupIndex ],
                     0)

\* what a call is given and what it leaves in groupIndex and first
GeneGroupReturned(objPar, groupIndex, first) ==
    [ obj |-> objPar, groupIndexBefore |-> groupIndex, firstBefore |-> first,
      groupIndex |-> GetGeneGroupOp(objPar, groupIndex, first).groupIndex,
      first |-> GetGeneGroupOp(objPar, groupIndex, first).first ]

GetGeneGroup(objPar, groupIndex, first) ==
    /\ Becomes(Start, "GetGeneGroup", GeneGroupReturned(objPar, groupIndex, first))

-----------------------------------------------------------------------------
(* SpecGene: GetGeneGroup on objects of up to three parameters, some of them
   parameters of the crystal, with groupIndex as the caller left it *)

ParAddresses == 1..8

ObjPars ==
    { <<>> } \cup { <<a>> : a \in ParAddresses }
        \cup { s \in [1..2 -> ParAddresses] : s[1] # s[2] }
        \cup { s \in [1..3 -> {1, 2, 6, 7}] : s[1] # s[2] /\ s[1] # s[3] /\ s[2] # s[3] }

FirstArgs == {0, 1, 2}

GroupFills == {0, 9}

InitGene ==
    Holds(Constructed("P1", PosA, PosB, 2, ScaleUnit, ScaleUnit))

NextGene ==
    \/ \E objPar \in ObjPars, first \in FirstArgs, fill \in GroupFills :
           GetGeneGroup(objPar, [ i \in DOMAIN objPar |-> fill ], first)

SpecGene == InitGene /\ [][NextGene]_vars

\* the parameters of obj that are parameters of the crystal
Matching(objPar) ==
    { i \in DOMAIN objPar : \E j \in DOMAIN CrystalPars : objPar[i] = CrystalPars[j] }

\* C29: GetGeneGroup gives one group index to all the parameters of obj that
\* are parameters of the crystal and increases first by at most one, for every
\* value of first, 0 included
C29_OneGroupForTheCrystal ==
    lastOp = "GetGeneGroup" =>
        /\ \A i \in Matching(ret.obj), k \in Matching(ret.obj) :
               ret.groupIndex[i] = ret.groupIndex[k]
        /\ ret.first \in {ret.firstBefore, ret.firstBefore + 1}

-----------------------------------------------------------------------------
(* Crystal::GlobalOptRandomMove.  The coordinates of a scatterer are REAL and
   the build chooses REAL, float or double; the temporaries x1, y1, z1 of the
   permutation are float.  Here a REAL is an integer and, where REAL is
   double, a float holds one REAL in FloatGrain *)

RAND_MAX == 32767

FloatGrain == 4

REALTypes == {"float", "double"}

\* the REAL x converted to float, to the nearest
ToFloat(x, real) ==
    IF real = "float" THEN x ELSE FloatGrain * ((x + (FloatGrain \div 2)) \div FloatGrain)

\* GetX(), GetY(), GetZ() of the scatterer s
GetXYZ(c, s) == <<c.scatt[s].mX, c.scatt[s].mY, c.scatt[s].mZ>>

\* GetScatt(n): the registry counts from 0
GetScatt(c, n) == c.mScattererRegistry[n + 1]

\* the float temporaries x1, y1, z1
FloatXYZ(pos, real) == <<ToFloat(pos[1], real), ToFloat(pos[2], real), ToFloat(pos[3], real)>>

\* the permutation of the scatterers n1 and n2
Permutation(c, n1, n2, real) ==
    MoveScattererOp(MoveScattererOp(c, GetScatt(c, n1), GetXYZ(c, GetScatt(c, n2))),
                    GetScatt(c, n2), FloatXYZ(GetXYZ(c, GetScatt(c, n1)), real))

\* RefinableObj::GlobalOptRandomMove: the parameters of the crystal itself,
\* those of the lattice, are moved or, being fixed, are not
RefinableObjGlobalOptRandomMove(c, moved) ==
    IF moved THEN ChangeLatticeOp(c) ELSE c

RandomIndex1(nb, r1) == r1 % nb

RandomIndex2(nb, r1, r2) == ((r2 % (nb - 1)) + RandomIndex1(nb, r1) + 1) % nb

\* rand()/(REAL)RAND_MAX < .02
PermutationDrawn(r0) == r0 * 50 < RAND_MAX

\* what the call did, as the caller can tell it, and the REAL of the build
RandomMoveReport(c, branch, n1, n2, real) ==
    [ before |-> c, branch |-> branch, nb |-> Len(c.mScattererRegistry),
      n1 |-> n1, n2 |-> n2, real |-> real ]

GlobalOptRandomMoveOp(c, r0, r1, r2, real, moved) ==
    IF c.mRandomMoveIsDone THEN <<c, RandomMoveReport(c, "done", 0, 0, real)>>
    ELSE IF PermutationDrawn(r0) /\ Len(c.mScattererRegistry) > 1
    THEN <<[Permutation(c, RandomIndex1(Len(c.mScattererRegistry), r1),
                        RandomIndex2(Len(c.mScattererRegistry), r1, r2), real)
               EXCEPT !.mRandomMoveIsDone = TRUE],
           RandomMoveReport(c, "permutation",
                            RandomIndex1(Len(c.mScattererRegistry), r1),
                            RandomIndex2(Len(c.mScattererRegistry), r1, r2), real)>>
    ELSE <<[RefinableObjGlobalOptRandomMove(c, moved) EXCEPT !.mRandomMoveIsDone = TRUE],
           RandomMoveReport(c, "move", 0, 0, real)>>

GlobalOptRandomMove(r0, r1, r2, real, moved) ==
    /\ Returns(GlobalOptRandomMoveOp(Start, r0, r1, r2, real, moved), "GlobalOptRandomMove")

\* RefinableObj::BeginGlobalOptRandomMove: the next call moves again
BeginGlobalOptRandomMoveOp(c) == [c EXCEPT !.mRandomMoveIsDone = FALSE]

BeginGlobalOptRandomMove ==
    /\ mRandomMoveIsDone
    /\ Becomes(BeginGlobalOptRandomMoveOp(Start), "BeginGlobalOptRandomMove", 0)

-----------------------------------------------------------------------------
(* SpecMove: random moves of crystals of one, two and three scatterers *)

PosF == <<4097, 8191, 3>>

RandDraws == {0, 1, 2, 655, 656, RAND_MAX}

InitMove ==
    \/ \E p1 \in {PosA, PosF}, p2 \in {PosB, PosF} :
           Holds(Populated("P1", p1, p2, 2, ScaleUnit, ScaleUnit))
    \/ \E p3 \in {PosC, PosF} :
           Holds(ThreeAtoms("P1", <<1, 2, 1>>, p3))
    \/ Holds(AddScattererOp(Constructed("P1", PosF, PosB, 2, ScaleUnit, ScaleUnit), 1))

NextMove ==
    \/ \E r0 \in RandDraws, r1 \in RandDraws, r2 \in RandDraws,
          real \in REALTypes, moved \in BOOLEAN :
           GlobalOptRandomMove(r0, r1, r2, real, moved)
    \/ BeginGlobalOptRandomMove

SpecMove == InitMove /\ [][NextMove]_vars

\* the scatterers of the registry but those at the places n1 and n2
OtherScatterers(c, n1, n2) ==
    { s \in DOMAIN c.scatt : s # GetScatt(c, n1) /\ s # GetScatt(c, n2) }

\* C30: in the permutation branch n1 and n2 are in [0, nb) and distinct, n1
\* holds the former (x,y,z) of n2, n2 the former (x,y,z) of n1 and the other
\* scatterers are as they were; a call made while mRandomMoveIsDone is set
\* changes nothing
C30_PermutationSwapsTwoScatterers ==
    lastOp = "GlobalOptRandomMove" =>
        /\ ret.branch = "permutation" =>
               /\ ret.n1 \in 0..(ret.nb - 1) /\ ret.n2 \in 0..(ret.nb - 1)
               /\ ret.n1 # ret.n2
               /\ GetXYZ(Self, GetScatt(Self, ret.n1))
                      = GetXYZ(ret.before, GetScatt(Self, ret.n2))
               /\ GetXYZ(Self, GetScatt(Self, ret.n2))
                      = GetXYZ(ret.before, GetScatt(Self, ret.n1))
               /\ \A s \in OtherScatterers(Self, ret.n1, ret.n2) :
                      scatt[s] = ret.before.scatt[s]
        /\ ret.branch = "done" => [Self EXCEPT !.log = << >>] = ret.before

====
